---- MODULE Spec2Model ----
(***************************************************************************)
(* Verification model of the Quesma search path (quesma/quesma/search.go   *)
(* and the packages it drives).                                            *)
(*                                                                         *)
(* The module holds several specifications over one set of variables:      *)
(*   SpecAsync  - async search lifecycle: handleSearchCommon, the worker   *)
(*                goroutine, storeAsyncSearch, handlePartialAsyncSearch,   *)
(*                deleteAsyncSeach, reachedQueriesLimit.                   *)
(*   SpecEvict  - the async store under the periodic evictor.              *)
(*   SpecJobs   - searchWorkerCommon / runQueryJobs{Sequence,Parallel} of  *)
(*                one request, job by job, with its contexts.              *)
(*   SpecLimit  - runQueryJobs' admission to parallel mode for several     *)
(*                concurrent requests.                                     *)
(* Each specification leaves the variables of the others unchanged.        *)
(***************************************************************************)
EXTENDS Naturals, Integers, Sequences, FiniteSets, TLC

\* ------------------------------------------------------------------------
\* Bounds of the model
\* ------------------------------------------------------------------------

\* number of search requests (sync or async) followed individually
NumRequests == 2

\* number of clients polling GET /_async_search/{id}
NumPollers == 2

\* number of ids the evictor's store is filled with
NumEvictEntries == 2

\* the clock advances in steps of TickMinutes and stops at MaxTime minutes
TickMinutes == 5

MaxTime == 20

\* how many of the store entries that are not followed individually may be
\* consumed during a behaviour
MaxOtherConsumed == 1

\* ------------------------------------------------------------------------
\* Program constants
\* ------------------------------------------------------------------------

asyncQueriesLimit == 10000

asyncQueriesLimitBytes == 1024 * 1024 * 500

\* ------------------------------------------------------------------------
\* State
\* ------------------------------------------------------------------------

VARIABLES
    \* QueryRunner.AsyncRequestStorage: id -> AsyncRequestResult, for the ids
    \* of the requests followed individually
    AsyncRequestStorage,
    \* QueryRunner.AsyncQueriesContexts: id -> AsyncQueryContext
    AsyncQueriesContexts,
    \* the package-level atomic counter asyncRequestId
    asyncRequestId,
    \* entries of AsyncRequestStorage stored under ids of other requests:
    \* how many there are, and the length of the body of each
    otherStored, otherBodyLen, otherConsumed,
    \* per request: its parameters, the position of the handler goroutine
    \* (handleSearchCommon), of the worker goroutine (search.go:252), of the
    \* goroutine started when the timer fires (search.go:309), the doneCh
    \* channel, and what the handler returned
    req, hpc, wpc, bpc, doneCh, resp,
    \* per caller of handlePartialAsyncSearch (a poller, or the handler of a
    \* request on the timer path): position, id, the loaded entry, the
    \* value returned
    cpc, cid, cres, cret,
    \* history: per id, how often handlePartialAsyncSearch returned the
    \* stored result; whether the entry was consumed or deleted since the
    \* last Store; per caller, whether its call began after that
    delivered, consumed, cafter,
    \* history: the requests whose timer fired while doneCh was still empty;
    \* per request, the number of pending async searches when the capacity
    \* check admitted it; the requests for which a query was sent to the
    \* database; the requests whose result was stored
    timerEarly, pendingAtCheck, dbCalled, storedFor,
    \* the clock, in minutes
    now,
    \* the ids whose async context was cancelled
    cancelledCtx,
    \* history: the ids an eviction pass removed from the store, and the ids
    \* an eviction pass found in the store and left there
    evictedIds, survivors,
    \* QueryRunner.currentParallelQueryJobs
    currentParallelQueryJobs,
    \* one request inside searchWorkerCommon: whether it is an async search and
    \* the kinds of its planned queries; its position; the mode runQueryJobs
    \* chose; the value Add returned; jobHitsPosition; per job its state; the
    \* collector channel; the loop counter of the consumer; the results of
    \* runQueryJobs; the hits and the error searchWorkerCommon returns
    jreq, jpc, jmode, jcur, jobHitsPosition, jobState, collector, jconsumed,
    dbHits, hits, jerr,
    \* the contexts that were cancelled
    cancelled,
    \* history: what the jobs sent on the collector, in the order sent
    reported,
    \* several requests inside runQueryJobs: the position of each, the number
    \* of its jobs, and the value its Add returned
    lpc, ln, lcur,
    \* one call of a function that has no state of its own: its argument,
    \* what it returned, and how far the call is
    arg, ret, called,
    \* clickhouse.GlobalStatistics: index -> IndexStatistics; the
    \* IngestStatistics of the configuration the callers of Process hold;
    \* history: the number of calls of Process since the process began, and
    \* the number of those the behaviour has followed
    statistics, ingestStatistics, processed, statCalls,
    \* history: the ids for which deleteAsyncSeach has returned, in the
    \* behaviours that follow the deletes
    deleted

asyncVars == <<AsyncRequestStorage, AsyncQueriesContexts, asyncRequestId,
               otherStored, otherBodyLen, otherConsumed,
               req, hpc, wpc, bpc, doneCh, resp, cpc, cid, cres, cret,
               delivered, consumed, cafter,
               timerEarly, pendingAtCheck, dbCalled, storedFor>>

\* the variables the async lifecycle leaves alone
evictVars == <<now, cancelledCtx, evictedIds, survivors>>

jobVars == <<jreq, jpc, jmode, jcur, jobHitsPosition, jobState, collector,
             jconsumed, dbHits, hits, jerr, cancelled, reported>>

limitVars == <<lpc, ln, lcur>>

statVars == <<statistics, ingestStatistics, processed, statCalls>>

callVars == <<arg, ret, called, statVars, deleted>>

nonAsyncVars == <<evictVars, currentParallelQueryJobs, jobVars, limitVars,
                  callVars>>

nonEvictVars == <<currentParallelQueryJobs, jobVars, limitVars, callVars>>

vars == <<asyncVars, nonAsyncVars>>

Requests == 1 .. NumRequests

Pollers == (NumRequests + 1) .. (NumRequests + NumPollers)

Callers == Requests \cup Pollers

\* ids are modelled by the number generateAsyncRequestId appends to
\* "quesma_async_search_id_"; 0 stands for an id without that prefix
AsyncIds == 1 .. NumRequests

\* ------------------------------------------------------------------------
\* concurrent.Map
\* ------------------------------------------------------------------------

MapStore(m, k, v) == [x \in (DOMAIN m) \cup {k} |-> IF x = k THEN v ELSE m[x]]

MapDelete(m, k) == [x \in (DOMAIN m) \ {k} |-> m[x]]

MapHas(m, k) == k \in DOMAIN m

EmptyMap == [x \in {} |-> 0]

RECURSIVE SumOver(_, _)
SumOver(f, S) ==
    IF S = {} THEN 0
    ELSE LET x == CHOOSE y \in S : TRUE IN f[x] + SumOver(f, S \ {x})

\* ------------------------------------------------------------------------
\* Bodies and envelopes (byte sequences)
\* ------------------------------------------------------------------------

Bit(b) == IF b THEN 1 ELSE 0

\* queryparser.EmptyAsyncSearchResponse(id, isPartial, status), marshalled
EmptyAsyncSearchResponse(id, isPartial, status) == <<id, Bit(isPartial), status>>

\* queryparser.SearchToAsyncSearchResponse(response, id, isPartial, status),
\* followed by Marshal
SearchToAsyncSearchResponse(response, id, isPartial, status) ==
    <<id, Bit(isPartial), status>> \o response

\* util.Compress: a frame that carries the length of the payload
Compress(body) == <<Len(body)>> \o body

\* util.Decompress: fails on a frame whose length does not match
DecompressOk(frame) == Len(frame) > 0 /\ frame[1] = Len(frame) - 1

Decompress(frame) == Tail(frame)

NoError == ""

\* a value a handler returns: ([]byte, error)
Return(body, err) == [body |-> body, err |-> err]

\* an AsyncSearchWithError sent on doneCh
Done(response, err) == [response |-> response, err |-> err]

\* the response MakeSearchResponse builds for request r from its rows
SearchResponse(r) == <<r>>

\* ------------------------------------------------------------------------
\* SpecAsync: the async search lifecycle
\* ------------------------------------------------------------------------

\* capacity of doneCh: make(chan AsyncSearchWithError, 1)
DoneChCap == 1

IsQuesmaId(id) == id > 0

\* the zero AsyncRequestResult
NoResult == [responseBody |-> <<>>, err |-> NoError, added |-> 0, isCompressed |-> FALSE]

AsyncRequestResult(responseBody, err, added, isCompressed) ==
    [responseBody |-> responseBody, err |-> err, added |-> added,
     isCompressed |-> isCompressed]

NoReturn == Return(<<>>, NoError)

NoRequest == [async |-> FALSE, keep |-> FALSE, canParse |-> FALSE, id |-> 0]

\* ParseQuery, as far as the runner looks at it: canParse and the error
ParseQuery(registrySet, simpleQueryCanParse) ==
    IF ~registrySet
    THEN [canParse |-> FALSE, err |-> "schema registry is not set"]
    ELSE IF ~simpleQueryCanParse
         THEN [canParse |-> FALSE, err |-> NoError]
         ELSE [canParse |-> TRUE, err |-> NoError]

\* a runner that looks at the parse error instead of canParse
ShouldExecuteIfNoError(parsed) == parsed.err = NoError

\* handleSearchCommon, search.go:241: the worker is started only if canParse
ShouldExecute(parsed) == parsed.canParse

\* AsyncRequestStorage.Size()
StorageSize == otherStored + Cardinality(DOMAIN AsyncRequestStorage)

asyncQueriesCumulatedBodySize ==
    otherStored * otherBodyLen
    + SumOver([i \in DOMAIN AsyncRequestStorage |->
                   Len(AsyncRequestStorage[i].responseBody)],
              DOMAIN AsyncRequestStorage)

reachedQueriesLimit ==
    ~(StorageSize < asyncQueriesLimit
      /\ asyncQueriesCumulatedBodySize < asyncQueriesLimitBytes)

\* storeAsyncSearch: the new store, and the ([]byte, error) it returns
storeAsyncSearch(storage, id, result, keep, compressOk, t) ==
    IF result.err # NoError
    THEN [storage |-> IF keep
                      THEN MapStore(storage, id,
                               AsyncRequestResult(<<>>, result.err, t, FALSE))
                      ELSE storage,
          ret |-> Return(EmptyAsyncSearchResponse(id, FALSE, 503), result.err)]
    ELSE LET responseBody ==
                 SearchToAsyncSearchResponse(result.response, id, FALSE, 200)
             stored == IF compressOk
                       THEN AsyncRequestResult(Compress(responseBody), NoError, t, TRUE)
                       ELSE AsyncRequestResult(responseBody, NoError, t, FALSE)
         IN [storage |-> IF keep THEN MapStore(storage, id, stored) ELSE storage,
             ret |-> Return(responseBody, NoError)]

\* handlePartialAsyncSearch, search.go:401-422: what is returned for a
\* loaded entry
PartialResult(id, result) ==
    IF result.err # NoError
    THEN Return(EmptyAsyncSearchResponse(id, FALSE, 503), NoError)
    ELSE IF result.isCompressed
         THEN IF DecompressOk(result.responseBody)
              THEN Return(Decompress(result.responseBody), NoError)
              ELSE Return(<<>>, "decompress error")
         ELSE Return(result.responseBody, NoError)

\* a read that forgets the Delete on the error branch
StorageAfterReadKeepsErrors(storage, id, result) ==
    IF result.err # NoError THEN storage ELSE MapDelete(storage, id)

\* handlePartialAsyncSearch, search.go:401-406: the entry is deleted on the
\* error branch and on the success branch
StorageAfterRead(storage, id, result) ==
    IF result.err # NoError THEN MapDelete(storage, id) ELSE MapDelete(storage, id)

\* a request that was created (it passed the capacity check) and whose
\* result was neither handed to the caller without being kept, nor
\* consumed or deleted from the store
Pending(r) ==
    /\ req[r].async
    /\ MapHas(AsyncQueriesContexts, req[r].id)
    /\ ~consumed[req[r].id]
    /\ ~(hpc[r] = "done" /\ bpc[r] = "none"
         /\ ~MapHas(AsyncRequestStorage, req[r].id))

PendingCount == otherStored + Cardinality({r \in Requests : Pending(r)})

\* the entries of other requests at the start: none; one below the limit;
\* at the limit (all of them error results, whose body is empty); one entry
\* whose body alone reaches the byte limit
OtherEntries ==
    {<<0, 0>>, <<asyncQueriesLimit - 1, 0>>, <<asyncQueriesLimit, 0>>,
     <<1, asyncQueriesLimitBytes>>}

\* nothing has been submitted, nothing is stored
AsyncIdle ==
    /\ AsyncRequestStorage = EmptyMap
    /\ AsyncQueriesContexts = EmptyMap
    /\ asyncRequestId = 0
    /\ otherConsumed = 0
    /\ req = [r \in Requests |-> NoRequest]
    /\ hpc = [r \in Requests |-> "idle"]
    /\ wpc = [r \in Requests |-> "none"]
    /\ bpc = [r \in Requests |-> "none"]
    /\ doneCh = [r \in Requests |-> <<>>]
    /\ resp = [r \in Requests |-> NoReturn]
    /\ cpc = [c \in Callers |-> "idle"]
    /\ cid = [c \in Callers |-> 0]
    /\ cres = [c \in Callers |-> NoResult]
    /\ cret = [c \in Callers |-> NoReturn]
    /\ delivered = [i \in AsyncIds |-> 0]
    /\ consumed = [i \in AsyncIds |-> FALSE]
    /\ cafter = [c \in Callers |-> FALSE]
    /\ timerEarly = {}
    /\ pendingAtCheck = [r \in Requests |-> 0]
    /\ dbCalled = {}
    /\ storedFor = {}
    /\ deleted = {}

\* the clock stands at 0, no eviction pass has run
EvictIdle ==
    /\ now = 0
    /\ cancelledCtx = {}
    /\ evictedIds = {}
    /\ survivors = {}

\* the requests that run runQueryJobs side by side
NumLimitRequests == 3

LimitRequests == 1..NumLimitRequests

\* no statistics were gathered, and none are asked for
StatIdle ==
    /\ statistics = <<>>
    /\ ingestStatistics = FALSE
    /\ processed = 0
    /\ statCalls = 0

\* no function call is under way
CallIdle ==
    /\ arg = <<>>
    /\ ret = <<>>
    /\ called = "no"
    /\ StatIdle

LimitIdle ==
    /\ lpc = [r \in LimitRequests |-> "idle"]
    /\ ln = [r \in LimitRequests |-> 0]
    /\ lcur = [r \in LimitRequests |-> 0]

\* no request is inside searchWorkerCommon
JobsIdle ==
    /\ currentParallelQueryJobs = 0
    /\ jreq = [async |-> FALSE, queries |-> <<>>]
    /\ jpc = "idle"
    /\ jmode = "none"
    /\ jcur = 0
    /\ jobHitsPosition = <<>>
    /\ jobState = <<>>
    /\ collector = <<>>
    /\ jconsumed = 0
    /\ dbHits = <<>>
    /\ hits = <<>>
    /\ jerr = 0
    /\ cancelled = {}
    /\ reported = <<>>
    /\ LimitIdle

InitAsync ==
    /\ AsyncIdle
    /\ \E other \in OtherEntries :
           otherStored = other[1] /\ otherBodyLen = other[2]
    /\ EvictIdle
    /\ JobsIdle
    /\ CallIdle

\* handleAsyncSearch / handleSearch up to the start of the worker goroutine
\* (search.go:122-289)
Submit(r) ==
    /\ hpc[r] = "idle"
    /\ \E async \in BOOLEAN, keep \in BOOLEAN, registrySet \in BOOLEAN,
          simpleQueryCanParse \in BOOLEAN, missing \in BOOLEAN :
         LET id == IF async THEN asyncRequestId + 1 ELSE 0
             parsed == ParseQuery(registrySet, simpleQueryCanParse)
         IN /\ (~async => ~keep)
            /\ asyncRequestId' = IF async THEN asyncRequestId + 1 ELSE asyncRequestId
            /\ req' = [req EXCEPT ![r] = [async |-> async, keep |-> keep,
                                          canParse |-> parsed.canParse, id |-> id]]
            /\ IF ShouldExecute(parsed)
               THEN IF missing
                    THEN /\ hpc' = [hpc EXCEPT ![r] = "done"]
                         /\ resp' = [resp EXCEPT ![r] = Return(<<>>, "properties not found")]
                         /\ wpc' = wpc
                    ELSE /\ hpc' = [hpc EXCEPT ![r] = "wait"]
                         /\ wpc' = [wpc EXCEPT ![r] = "searchWorker"]
                         /\ resp' = resp
               ELSE /\ hpc' = [hpc EXCEPT ![r] = "done"]
                    /\ resp' = [resp EXCEPT ![r] = Return(<<>>, "Invalid Queries")]
                    /\ wpc' = wpc
    /\ UNCHANGED <<AsyncRequestStorage, AsyncQueriesContexts, otherStored,
                   otherBodyLen, otherConsumed, bpc, doneCh, cpc, cid, cres,
                   cret, delivered, consumed, cafter, timerEarly,
                   pendingAtCheck, dbCalled, storedFor, nonAsyncVars>>

\* searchWorker up to the call of searchWorkerCommon (search.go:616-631)
WorkerStart(r) ==
    /\ wpc[r] = "searchWorker"
    /\ IF req[r].async
       THEN IF reachedQueriesLimit
            THEN /\ doneCh' = [doneCh EXCEPT ![r] =
                                  Append(@, Done(<<>>, "too many async queries"))]
                 /\ wpc' = [wpc EXCEPT ![r] = "noHits"]
                 /\ UNCHANGED <<AsyncQueriesContexts, pendingAtCheck>>
            ELSE /\ AsyncQueriesContexts' =
                        MapStore(AsyncQueriesContexts, req[r].id, [added |-> now])
                 /\ wpc' = [wpc EXCEPT ![r] = "db"]
                 /\ pendingAtCheck' = [pendingAtCheck EXCEPT ![r] = PendingCount]
                 /\ doneCh' = doneCh
       ELSE /\ wpc' = [wpc EXCEPT ![r] = "db"]
            /\ UNCHANGED <<AsyncQueriesContexts, pendingAtCheck, doneCh>>
    /\ UNCHANGED <<AsyncRequestStorage, asyncRequestId, otherStored, otherBodyLen,
                   otherConsumed, req, hpc, bpc, resp, cpc, cid, cres, cret,
                   delivered, consumed, cafter, timerEarly, dbCalled,
                   storedFor, nonAsyncVars>>

\* the rest of the worker goroutine up to its first send on doneCh
\* (search.go:253-276): the queries run, the results are post-processed
WorkerDB(r) ==
    /\ wpc[r] = "db"
    /\ Len(doneCh[r]) < DoneChCap
    /\ \E outcome \in {"ok", "dbError", "noQueries", "postError", "panic"} :
         /\ dbCalled' = IF outcome = "noQueries" THEN dbCalled ELSE dbCalled \cup {r}
         /\ doneCh' = [doneCh EXCEPT ![r] = Append(@,
                CASE outcome = "ok" -> Done(SearchResponse(r), NoError)
                  [] outcome = "dbError" -> Done(<<>>, "db error")
                  [] outcome = "noQueries" -> Done(<<>>, "no hits")
                  [] outcome = "postError" -> Done(<<>>, "post-processing error")
                  [] outcome = "panic" -> Done(<<>>, "panic"))]
         /\ wpc' = [wpc EXCEPT ![r] =
                IF outcome = "postError" THEN "postError" ELSE "done"]
    /\ UNCHANGED <<AsyncRequestStorage, AsyncQueriesContexts, asyncRequestId,
                   otherStored, otherBodyLen, otherConsumed, req, hpc, bpc, resp,
                   cpc, cid, cres, cret, delivered, consumed, cafter,
                   timerEarly, pendingAtCheck, storedFor, nonAsyncVars>>

\* the second send of the worker: "no hits" after the capacity error
\* (search.go:263-266), the response after a post-processing error
\* (search.go:270-276)
WorkerSecondSend(r) ==
    /\ wpc[r] \in {"noHits", "postError"}
    /\ Len(doneCh[r]) < DoneChCap
    /\ doneCh' = [doneCh EXCEPT ![r] = Append(@,
           IF wpc[r] = "noHits" THEN Done(<<>>, "no hits")
           ELSE Done(<<>>, "post-processing error"))]
    /\ wpc' = [wpc EXCEPT ![r] = "done"]
    /\ UNCHANGED <<AsyncRequestStorage, AsyncQueriesContexts, asyncRequestId,
                   otherStored, otherBodyLen, otherConsumed, req, hpc, bpc, resp,
                   cpc, cid, cres, cret, delivered, consumed, cafter,
                   timerEarly, pendingAtCheck, dbCalled, storedFor, nonAsyncVars>>

\* the handler receives from doneCh: search.go:293-305 for a sync search,
\* the second case of the select, search.go:315-319, for an async one
HandlerRecv(r) ==
    /\ hpc[r] = "wait"
    /\ doneCh[r] # <<>>
    /\ doneCh' = [doneCh EXCEPT ![r] = Tail(@)]
    /\ hpc' = [hpc EXCEPT ![r] = "done"]
    /\ LET res == Head(doneCh[r])
       IN IF req[r].async
          THEN \E compressOk \in BOOLEAN :
                 LET s == storeAsyncSearch(AsyncRequestStorage, req[r].id, res,
                                           req[r].keep, compressOk, now)
                 IN /\ AsyncRequestStorage' = s.storage
                    /\ resp' = [resp EXCEPT ![r] = s.ret]
                    /\ storedFor' = IF req[r].keep THEN storedFor \cup {r} ELSE storedFor
                    /\ consumed' = IF req[r].keep
                                   THEN [consumed EXCEPT ![req[r].id] = FALSE]
                                   ELSE consumed
          ELSE /\ resp' = [resp EXCEPT ![r] =
                      IF res.err # NoError THEN Return(<<>>, res.err)
                      ELSE Return(res.response, NoError)]
               /\ UNCHANGED <<AsyncRequestStorage, storedFor, consumed>>
    /\ UNCHANGED <<AsyncQueriesContexts, asyncRequestId, otherStored, otherBodyLen,
                   otherConsumed, req, wpc, bpc, cpc, cid, cres, cret, delivered,
                   cafter, timerEarly, pendingAtCheck, dbCalled, nonAsyncVars>>

\* the first case of the select, search.go:308-314: the timer fires, the
\* goroutine that will store the result is started, and the handler goes on
\* to call handlePartialAsyncSearch
HandlerTimer(r) ==
    /\ hpc[r] = "wait"
    /\ req[r].async
    /\ hpc' = [hpc EXCEPT ![r] = "partial"]
    /\ bpc' = [bpc EXCEPT ![r] = "recv"]
    /\ cpc' = [cpc EXCEPT ![r] = "call"]
    /\ cid' = [cid EXCEPT ![r] = req[r].id]
    /\ timerEarly' = IF doneCh[r] = <<>> THEN timerEarly \cup {r} ELSE timerEarly
    /\ UNCHANGED <<AsyncRequestStorage, AsyncQueriesContexts, asyncRequestId,
                   otherStored, otherBodyLen, otherConsumed, req, wpc, doneCh,
                   resp, cres, cret, delivered, consumed, cafter,
                   pendingAtCheck, dbCalled, storedFor, nonAsyncVars>>

\* the goroutine of search.go:309-313: res := <-doneCh, then
\* storeAsyncSearch(..., res, true)
BackgroundStore(r) ==
    /\ bpc[r] = "recv"
    /\ doneCh[r] # <<>>
    /\ doneCh' = [doneCh EXCEPT ![r] = Tail(@)]
    /\ bpc' = [bpc EXCEPT ![r] = "done"]
    /\ \E compressOk \in BOOLEAN :
         AsyncRequestStorage' =
             storeAsyncSearch(AsyncRequestStorage, req[r].id, Head(doneCh[r]),
                              TRUE, compressOk, now).storage
    /\ storedFor' = storedFor \cup {r}
    /\ consumed' = [consumed EXCEPT ![req[r].id] = FALSE]
    /\ UNCHANGED <<AsyncQueriesContexts, asyncRequestId, otherStored, otherBodyLen,
                   otherConsumed, req, hpc, wpc, resp, cpc, cid, cres, cret,
                   delivered, cafter, timerEarly, pendingAtCheck, dbCalled, nonAsyncVars>>

\* handlePartialAsyncSearch up to and including AsyncRequestStorage.Load
\* (search.go:396-400, 423-427), for caller c and id
PartialLoad(c, id) ==
    /\ cid' = [cid EXCEPT ![c] = id]
    /\ cafter' = [cafter EXCEPT ![c] = IsQuesmaId(id) /\ consumed[id]]
    /\ IF ~IsQuesmaId(id)
       THEN /\ cret' = [cret EXCEPT ![c] =
                   Return(EmptyAsyncSearchResponse(id, FALSE, 503), NoError)]
            /\ cpc' = [cpc EXCEPT ![c] = "returned"]
            /\ cres' = cres
       ELSE IF MapHas(AsyncRequestStorage, id)
            THEN /\ cres' = [cres EXCEPT ![c] = AsyncRequestStorage[id]]
                 /\ cpc' = [cpc EXCEPT ![c] = "loaded"]
                 /\ cret' = cret
            ELSE /\ cret' = [cret EXCEPT ![c] =
                        Return(EmptyAsyncSearchResponse(id, TRUE, 200), NoError)]
                 /\ cpc' = [cpc EXCEPT ![c] = "returned"]
                 /\ cres' = cres

\* GET /_async_search/{id}: a poller calls handlePartialAsyncSearch
PollerLoad(p) ==
    /\ cpc[p] \in {"idle", "returned"}
    /\ \E id \in 0 .. asyncRequestId : PartialLoad(p, id)
    /\ UNCHANGED <<AsyncRequestStorage, AsyncQueriesContexts, asyncRequestId,
                   otherStored, otherBodyLen, otherConsumed, req, hpc, wpc, bpc,
                   doneCh, resp, delivered, consumed, timerEarly,
                   pendingAtCheck, dbCalled, storedFor, nonAsyncVars>>

\* the call of handlePartialAsyncSearch at search.go:314
HandlerLoad(r) ==
    /\ hpc[r] = "partial"
    /\ cpc[r] = "call"
    /\ PartialLoad(r, req[r].id)
    /\ IF cpc'[r] = "returned"
       THEN /\ hpc' = [hpc EXCEPT ![r] = "done"]
            /\ resp' = [resp EXCEPT ![r] = cret'[r]]
       ELSE UNCHANGED <<hpc, resp>>
    /\ UNCHANGED <<AsyncRequestStorage, AsyncQueriesContexts, asyncRequestId,
                   otherStored, otherBodyLen, otherConsumed, req, wpc, bpc,
                   doneCh, delivered, consumed, timerEarly, pendingAtCheck,
                   dbCalled, storedFor, nonAsyncVars>>

\* handlePartialAsyncSearch from AsyncRequestStorage.Delete to the return
\* (search.go:401-422)
PartialFinish(c) ==
    /\ cpc[c] = "loaded"
    /\ AsyncRequestStorage' = StorageAfterRead(AsyncRequestStorage, cid[c], cres[c])
    /\ cret' = [cret EXCEPT ![c] = PartialResult(cid[c], cres[c])]
    /\ cres' = [cres EXCEPT ![c] = NoResult]
    /\ cpc' = [cpc EXCEPT ![c] = "returned"]
    /\ delivered' = [delivered EXCEPT ![cid[c]] = @ + 1]
    /\ consumed' = [consumed EXCEPT ![cid[c]] = TRUE]
    /\ IF c \in Requests
       THEN /\ hpc' = [hpc EXCEPT ![c] = "done"]
            /\ resp' = [resp EXCEPT ![c] = cret'[c]]
       ELSE UNCHANGED <<hpc, resp>>
    /\ UNCHANGED <<AsyncQueriesContexts, asyncRequestId, otherStored, otherBodyLen,
                   otherConsumed, req, wpc, bpc, doneCh, cid, cafter, timerEarly,
                   pendingAtCheck, dbCalled, storedFor, nonAsyncVars>>

\* deleteAsyncSeach (search.go:430-436) for id
DeleteAsyncSearch(id) ==
    IF IsQuesmaId(id)
    THEN /\ AsyncRequestStorage' = MapDelete(AsyncRequestStorage, id)
         /\ consumed' = IF MapHas(AsyncRequestStorage, id)
                        THEN [consumed EXCEPT ![id] = TRUE] ELSE consumed
    ELSE UNCHANGED <<AsyncRequestStorage, consumed>>

\* DELETE /_async_search/{id}
DeleteAsync ==
    /\ \E id \in 0 .. asyncRequestId : DeleteAsyncSearch(id)
    /\ UNCHANGED <<AsyncQueriesContexts, asyncRequestId, otherStored, otherBodyLen,
                   otherConsumed, req, hpc, wpc, bpc, doneCh, resp, cpc, cid,
                   cres, cret, delivered, cafter, timerEarly, pendingAtCheck,
                   dbCalled, storedFor, nonAsyncVars>>

\* an entry stored under the id of another request is consumed, deleted or
\* evicted
ConsumeOther ==
    /\ otherStored > 0
    /\ otherConsumed < MaxOtherConsumed
    /\ otherStored' = otherStored - 1
    /\ otherConsumed' = otherConsumed + 1
    /\ UNCHANGED <<AsyncRequestStorage, AsyncQueriesContexts, asyncRequestId,
                   otherBodyLen, req, hpc, wpc, bpc, doneCh, resp, cpc, cid,
                   cres, cret, delivered, consumed, cafter, timerEarly,
                   pendingAtCheck, dbCalled, storedFor, nonAsyncVars>>

\* the searches, their handlers' own calls of handlePartialAsyncSearch,
\* deletes, and the entries of other requests
NextAsync ==
    \/ \E r \in Requests : Submit(r)
    \/ \E r \in Requests : WorkerStart(r)
    \/ \E r \in Requests : WorkerDB(r)
    \/ \E r \in Requests : WorkerSecondSend(r)
    \/ \E r \in Requests : HandlerRecv(r)
    \/ \E r \in Requests : HandlerTimer(r)
    \/ \E r \in Requests : BackgroundStore(r)
    \/ \E r \in Requests : HandlerLoad(r)
    \/ \E r \in Requests : PartialFinish(r)
    \/ DeleteAsync
    \/ ConsumeOther

SpecAsync == InitAsync /\ [][NextAsync]_vars

\* one search, the pollers of its id, and deletes
PolledRequests == {r \in Requests : r <= 1}

NextPoll ==
    \/ \E r \in PolledRequests : Submit(r)
    \/ \E r \in PolledRequests : WorkerStart(r)
    \/ \E r \in PolledRequests : WorkerDB(r)
    \/ \E r \in PolledRequests : WorkerSecondSend(r)
    \/ \E r \in PolledRequests : HandlerRecv(r)
    \/ \E r \in PolledRequests : HandlerTimer(r)
    \/ \E r \in PolledRequests : BackgroundStore(r)
    \/ \E r \in PolledRequests : HandlerLoad(r)
    \/ \E p \in Pollers : PollerLoad(p)
    \/ \E c \in PolledRequests \cup Pollers : PartialFinish(c)
    \/ DeleteAsync

SpecPoll == InitAsync /\ [][NextPoll]_vars

\* ------------------------------------------------------------------------
\* Properties of the async store and of the async lifecycle
\* ------------------------------------------------------------------------

\* the empty partial envelope handlePartialAsyncSearch returns for id
PartialEnvelope(id) == Return(EmptyAsyncSearchResponse(id, TRUE, 200), NoError)

\* what handlePartialAsyncSearch returns when it hands out the result stored
\* for request r: the complete response, or the 503 envelope of an error
CompleteResults(r) ==
    {Return(SearchToAsyncSearchResponse(SearchResponse(r), req[r].id, FALSE, 200), NoError),
     Return(EmptyAsyncSearchResponse(req[r].id, FALSE, 503), NoError)}

\* C1: the result stored under an id is returned by at most one call of
\* partial_async(id), whatever the interleaving: the read-and-delete of the
\* entry is one atomic step.
C1_AtMostOneCallReturnsResult ==
    \A i \in AsyncIds : delivered[i] <= 1

\* C2: once the stored result of id i has been returned by a partial_async(i)
\* or removed by delete_async(i), the entry is gone, and every partial_async(i)
\* that begins afterwards (nothing new being stored under i) returns the empty
\* envelope with is_partial = true; a call that does hand out something else
\* hands out the stored result of that search.
C2_ConsumedOnce ==
    /\ \A i \in AsyncIds : consumed[i] => ~MapHas(AsyncRequestStorage, i)
    /\ \A c \in Callers :
         cafter[c] => cpc[c] = "returned" /\ cret[c] = PartialEnvelope(cid[c])
    /\ \A c \in Callers, r \in Requests :
         (cpc[c] = "returned" /\ IsQuesmaId(cid[c]) /\ cid[c] = req[r].id
          /\ cret[c] # PartialEnvelope(cid[c]))
         => cret[c] \in CompleteResults(r) /\ delivered[cid[c]] >= 1

\* a poller that called after the result was consumed, and got the empty
\* partial envelope
C2_Witness ==
    \E p \in Pollers, i \in AsyncIds :
        /\ delivered[i] >= 1
        /\ consumed[i]
        /\ cafter[p] /\ cid[p] = i /\ cpc[p] = "returned"
        /\ cret[p] = PartialEnvelope(i)

\* C3: when the timer of an async search fires before the job has delivered
\* its result, the caller gets the partial envelope, and the final result is
\* stored under the id of the search, whatever keep_on_completion was.
C3_TimerPathReturnsPartial ==
    \A r \in timerEarly :
        MapHas(AsyncQueriesContexts, req[r].id)
        => /\ hpc[r] = "done" => resp[r] = PartialEnvelope(req[r].id)
           /\ bpc[r] = "done" => r \in storedFor

\* C4: an async search is not admitted while asyncQueriesLimit async searches
\* are pending (created, and neither evicted nor consumed).
C4_NoAdmissionAtLimit ==
    \A r \in Requests :
        MapHas(AsyncQueriesContexts, req[r].id) => pendingAtCheck[r] < asyncQueriesLimit

\* C9: a request whose parse yields can_parse = false starts no worker, sends
\* no query to the database and returns a parse error, be it sync or async.
C9_NoExecutionWithoutParse ==
    \A r \in Requests :
        (hpc[r] # "idle" /\ ~req[r].canParse)
        => /\ wpc[r] = "none"
           /\ r \notin dbCalled
           /\ hpc[r] = "done"
           /\ resp[r] = Return(<<>>, "Invalid Queries")

\* an async search that could not be parsed has returned
C9_Witness ==
    \E r \in Requests :
        req[r].async /\ ~req[r].canParse /\ hpc[r] = "done"

\* ------------------------------------------------------------------------
\* SpecEvict: the async store and the async contexts under the evictor
\* (AsyncQueriesEvictor, exercised by async_search_evictor_test.go)
\* ------------------------------------------------------------------------

\* the eviction budget, in minutes
EvictionInterval == 15

EvictIds == 1 .. NumEvictEntries

\* an evictor that compares the wrong way round
ExpiredWhenYoung(added, t) == added + EvictionInterval >= t

\* the evictor's test on an entry added at `added`, at time t: an entry
\* that is as old as the budget, or older, is dropped
Expired(added, t) == added + EvictionInterval <= t

\* the entries of m the evictor drops at time t
ExpiredKeys(m, t) == {k \in DOMAIN m : Expired(m[k].added, t)}

evictAsyncVars == <<asyncRequestId, otherStored, otherBodyLen, otherConsumed,
                    req, hpc, wpc, bpc, doneCh, resp, cpc, cid, cres, cret,
                    delivered, consumed, cafter, timerEarly, pendingAtCheck,
                    dbCalled>>

InitEvict ==
    /\ AsyncIdle
    /\ otherStored = 0
    /\ otherBodyLen = 0
    /\ EvictIdle
    /\ JobsIdle
    /\ CallIdle

\* time passes
Tick ==
    /\ now + TickMinutes <= MaxTime
    /\ now' = now + TickMinutes
    /\ UNCHANGED <<AsyncRequestStorage, AsyncQueriesContexts, cancelledCtx,
                   evictedIds, survivors, storedFor, evictAsyncVars, nonEvictVars>>

\* addAsyncQueryContext (search.go:448): the context of search id is
\* registered, with added = time.Now()
RegisterContext(id) ==
    /\ ~MapHas(AsyncQueriesContexts, id)
    /\ id \notin storedFor
    /\ id \notin cancelledCtx
    /\ AsyncQueriesContexts' = MapStore(AsyncQueriesContexts, id, [added |-> now])
    /\ UNCHANGED <<AsyncRequestStorage, now, cancelledCtx, evictedIds, survivors,
                   storedFor, evictAsyncVars, nonEvictVars>>

\* AsyncRequestStorage.Store(id, AsyncRequestResult{added: time.Now()}), as
\* storeAsyncSearch does it with keep = true; an id is stored once
StoreEntry(id) ==
    /\ id \notin storedFor
    /\ AsyncRequestStorage' =
           storeAsyncSearch(AsyncRequestStorage, id, Done(SearchResponse(id), NoError),
                            TRUE, TRUE, now).storage
    /\ storedFor' = storedFor \cup {id}
    /\ UNCHANGED <<AsyncQueriesContexts, now, cancelledCtx, evictedIds, survivors,
                   evictAsyncVars, nonEvictVars>>

\* tryEvictAsyncRequests: one eviction pass over the store and over the
\* contexts; the contexts dropped are cancelled
EvictPass ==
    /\ AsyncRequestStorage' =
           [k \in (DOMAIN AsyncRequestStorage) \ ExpiredKeys(AsyncRequestStorage, now)
                |-> AsyncRequestStorage[k]]
    /\ AsyncQueriesContexts' =
           [k \in (DOMAIN AsyncQueriesContexts) \ ExpiredKeys(AsyncQueriesContexts, now)
                |-> AsyncQueriesContexts[k]]
    /\ cancelledCtx' = cancelledCtx \cup ExpiredKeys(AsyncQueriesContexts, now)
    /\ evictedIds' = evictedIds \cup ExpiredKeys(AsyncRequestStorage, now)
    /\ survivors' = survivors \cup
           ((DOMAIN AsyncRequestStorage) \ ExpiredKeys(AsyncRequestStorage, now))
    /\ UNCHANGED <<now, storedFor, evictAsyncVars, nonEvictVars>>

NextEvict ==
    \/ Tick
    \/ \E id \in EvictIds : RegisterContext(id)
    \/ \E id \in EvictIds : StoreEntry(id)
    \/ EvictPass

SpecEvict == InitEvict /\ [][NextEvict]_vars

\* C10: one eviction pass removes from the async store every entry whose age
\* exceeds the eviction budget, and leaves every younger entry as it was.
C10_EvictPassRemovesOldKeepsYoung ==
    [][EvictPass =>
         \A id \in DOMAIN AsyncRequestStorage :
             /\ now - AsyncRequestStorage[id].added > EvictionInterval
                    => ~MapHas(AsyncRequestStorage', id)
             /\ now - AsyncRequestStorage[id].added < EvictionInterval
                    => /\ MapHas(AsyncRequestStorage', id)
                       /\ AsyncRequestStorage'[id] = AsyncRequestStorage[id]]_vars

\* a pass has removed an entry older than the budget and has left in the
\* store an entry younger than the budget
C10_Witness ==
    /\ evictedIds # {}
    /\ \E id \in survivors :
           /\ MapHas(AsyncRequestStorage, id)
           /\ now - AsyncRequestStorage[id].added < EvictionInterval


\* ------------------------------------------------------------------------
\* Query jobs: searchWorkerCommon, runQueryJobs, runQueryJobsSequence and
\* runQueryJobsParallel (search.go:469-614), for one request.
\* ------------------------------------------------------------------------

\* the longest query plan
MaxQueries == 3

\* what other requests have added to currentParallelQueryJobs when this
\* request arrives
OtherParallelJobs == {0, 24}

maxParallelQueries == 25

\* the kinds of a planned query: one that goes to the database, one with
\* OptimizeInfo NoDBQuery, and an internal Kibana query
QueryKinds == {"db", "noDB", "kibanaInternal"}

QueryPlans == UNION {[1..n -> QueryKinds] : n \in 0..MaxQueries}

\* search.go:566-583: a NoDBQuery or an internal Kibana query gets no job
HasJob(kind) == kind = "db"

\* jobHitsPosition: for each job, the position of its query in the plan
RECURSIVE JobHitsPosition(_, _)
JobHitsPosition(queries, i) ==
    IF i > Len(queries) THEN <<>>
    ELSE IF HasJob(queries[i]) THEN <<i>> \o JobHitsPosition(queries, i + 1)
    ELSE JobHitsPosition(queries, i + 1)

\* the rows the database returns for the query at position i, and the error
\* it returns when the query fails; no rows and no error are <<>> and 0
RowsOf(i) == <<i>>

ErrOf(i) == i

NoRows == <<>>

NoErr == 0

\* the contexts and their parents: q.executionCtx, the context of the HTTP
\* request, dbQueryCtx that searchWorker makes for an async search, and the
\* context runQueryJobsParallel derives
Contexts == {"background", "executionCtx", "requestCtx", "dbQueryCtx",
             "parallelCtx"}

CtxParent == [background |-> "background", executionCtx |-> "background",
              requestCtx |-> "background", dbQueryCtx |-> "background",
              parallelCtx |-> "executionCtx"]

RECURSIVE IsDescendant(_, _)
IsDescendant(c, a) ==
    IF c = a THEN TRUE
    ELSE IF CtxParent[c] = c THEN FALSE
    ELSE IsDescendant(CtxParent[c], a)

\* ctx.Done() is closed
CtxDone(c) == \E a \in cancelled : IsDescendant(c, a)

\* the context runQueryJobsSequence hands to a job (search.go:472)
SequenceJobCtx == "executionCtx"

\* the context runQueryJobsParallel hands to a job (search.go:490, 506)
ParallelJobCtx == "parallelCtx"

JobCtx(mode) == IF mode = "seq" THEN SequenceJobCtx ELSE ParallelJobCtx

\* the context searchWorker passes to searchWorkerCommon (search.go:616-632)
WorkerCtx(async) == IF async THEN "dbQueryCtx" ELSE "requestCtx"

\* search.go:541
ExceedsCeilingOffByOne(current) == current > maxParallelQueries + 1

ExceedsCeiling(current) == current > maxParallelQueries

\* search.go:513-517: the collector loop on one result
NeverFails(res) == FALSE

Fails(res) == res.err # NoErr

StoreAtArrival(results, res, n) == [results EXCEPT ![n] = res.rows]

StoreResult(results, res, n) == [results EXCEPT ![res.jobId] = res.rows]

\* search.go:604-607: the rows of job j go to position jobHitsPosition[j]
FillHits(queries, positions, results) ==
    [i \in 1..Len(queries) |->
        IF \E j \in 1..Len(positions) : positions[j] = i
        THEN results[CHOOSE j \in 1..Len(positions) : positions[j] = i]
        ELSE NoRows]

\* what a job can return: rows, or an error; only an error once its context
\* is done
JobOutcomes(ctx) == IF CtxDone(ctx) THEN {"err"} ELSE {"ok", "err"}

InitJobs ==
    /\ AsyncIdle
    /\ otherStored = 0
    /\ otherBodyLen = 0
    /\ EvictIdle
    /\ currentParallelQueryJobs \in OtherParallelJobs
    /\ jreq = [async |-> FALSE, queries |-> <<>>]
    /\ jpc = "idle"
    /\ jmode = "none"
    /\ jcur = 0
    /\ jobHitsPosition = <<>>
    /\ jobState = <<>>
    /\ collector = <<>>
    /\ jconsumed = 0
    /\ dbHits = <<>>
    /\ hits = <<>>
    /\ jerr = NoErr
    /\ cancelled = {}
    /\ reported = <<>>
    /\ LimitIdle
    /\ CallIdle

jobFrame == <<asyncVars, evictVars, limitVars, callVars>>


NumJobs == Len(jobHitsPosition)

\* a collector two results short
CollectorCapTwoShort == NumJobs - 2

\* the capacity of the collector: make(chan result, len(jobs)) (search.go:499)
CollectorCap == NumJobs

\* searchWorker and the first loop of searchWorkerCommon (search.go:556-600):
\* the hits array is made, a position without a job gets its empty rows, and
\* the jobs are built
SearchWorkerCommon ==
    /\ jpc = "idle"
    /\ jmode = "none"
    /\ \E async \in BOOLEAN, queries \in QueryPlans :
         /\ jreq' = [async |-> async, queries |-> queries]
         /\ jobHitsPosition' = JobHitsPosition(queries, 1)
         /\ jobState' = [j \in 1..Len(JobHitsPosition(queries, 1)) |-> "pending"]
         /\ hits' = [i \in 1..Len(queries) |-> NoRows]
    /\ jpc' = "runQueryJobs"
    /\ UNCHANGED <<currentParallelQueryJobs, jmode, jcur, collector, jconsumed,
                   dbHits, jerr, cancelled, reported, jobFrame>>

\* runQueryJobs up to the Add (search.go:529-543)
RunQueryJobsAdd ==
    /\ jpc = "runQueryJobs"
    /\ IF NumJobs = 1
       THEN /\ jpc' = "seq"
            /\ jmode' = "seq"
            /\ UNCHANGED <<currentParallelQueryJobs, jcur>>
       ELSE /\ currentParallelQueryJobs' = currentParallelQueryJobs + NumJobs
            /\ jcur' = currentParallelQueryJobs + NumJobs
            /\ jpc' = "added"
            /\ UNCHANGED jmode
    /\ UNCHANGED <<jreq, jobHitsPosition, jobState, collector, jconsumed, dbHits,
                   hits, jerr, cancelled, reported, jobFrame>>

\* runQueryJobs after the Add (search.go:545-552), and the start of
\* runQueryJobsParallel (search.go:483-511): every job gets its goroutine
RunQueryJobsDecide ==
    /\ jpc = "added"
    /\ IF ExceedsCeiling(jcur)
       THEN /\ currentParallelQueryJobs' = currentParallelQueryJobs - NumJobs
            /\ jpc' = "seq"
            /\ jmode' = "seq"
            /\ UNCHANGED <<jobState, dbHits>>
       ELSE /\ jpc' = "par"
            /\ jmode' = "par"
            /\ jobState' = [j \in 1..NumJobs |-> "running"]
            /\ dbHits' = [j \in 1..NumJobs |-> NoRows]
            /\ UNCHANGED currentParallelQueryJobs
    /\ UNCHANGED <<jreq, jcur, jobHitsPosition, collector, jconsumed, hits, jerr,
                   cancelled, reported, jobFrame>>

\* runQueryJobsSequence calls the next job (search.go:471-472)
SequenceJobStart ==
    /\ jpc = "seq"
    /\ Len(dbHits) < NumJobs
    /\ jobState[Len(dbHits) + 1] = "pending"
    /\ jobState' = [jobState EXCEPT ![Len(dbHits) + 1] = "running"]
    /\ UNCHANGED <<currentParallelQueryJobs, jreq, jpc, jmode, jcur,
                   jobHitsPosition, collector, jconsumed, dbHits, hits, jerr,
                   cancelled, reported, jobFrame>>

\* the job called by runQueryJobsSequence returns (search.go:472-478), and
\* with the last job or an error so do runQueryJobsSequence, runQueryJobs and
\* searchWorkerCommon (search.go:601-613)
SequenceJobReturn ==
    /\ jpc = "seq"
    /\ Len(dbHits) < NumJobs
    /\ jobState[Len(dbHits) + 1] = "running"
    /\ \E outcome \in JobOutcomes(JobCtx("seq")) :
         LET j == Len(dbHits) + 1
             results == Append(dbHits, RowsOf(jobHitsPosition[j]))
         IN /\ jobState' = [jobState EXCEPT ![j] = "returned"]
            /\ IF outcome = "err"
               THEN /\ jerr' = ErrOf(jobHitsPosition[j])
                    /\ jpc' = "done"
                    /\ UNCHANGED <<dbHits, hits>>
               ELSE /\ dbHits' = results
                    /\ IF j = NumJobs
                       THEN /\ jpc' = "done"
                            /\ hits' = FillHits(jreq.queries, jobHitsPosition, results)
                       ELSE UNCHANGED <<jpc, hits>>
                    /\ UNCHANGED jerr
    /\ UNCHANGED <<currentParallelQueryJobs, jreq, jmode, jcur, jobHitsPosition,
                   collector, jconsumed, cancelled, reported, jobFrame>>

\* a goroutine of runQueryJobsParallel: its job returns and it sends the
\* result on the collector (search.go:502-510)
ParallelJobSend(j) ==
    /\ jmode = "par"
    /\ jobState[j] = "running"
    /\ Len(collector) < CollectorCap
    /\ \E outcome \in JobOutcomes(JobCtx("par")) :
         LET res == IF outcome = "err"
                    THEN [rows |-> NoRows, err |-> ErrOf(jobHitsPosition[j]),
                          jobId |-> j]
                    ELSE [rows |-> RowsOf(jobHitsPosition[j]), err |-> NoErr,
                          jobId |-> j]
         IN /\ collector' = Append(collector, res)
            /\ reported' = Append(reported, res)
    /\ jobState' = [jobState EXCEPT ![j] = "returned"]
    /\ UNCHANGED <<currentParallelQueryJobs, jreq, jpc, jmode, jcur,
                   jobHitsPosition, jconsumed, dbHits, hits, jerr, cancelled,
                   jobFrame>>

\* one round of the consumer loop (search.go:514-521); on an error
\* runQueryJobsParallel returns, its deferred cancel runs, then the deferred
\* Add of runQueryJobs, and searchWorkerCommon returns the error
ParallelConsume ==
    /\ jpc = "par"
    /\ jconsumed < NumJobs
    /\ collector # <<>>
    /\ collector' = Tail(collector)
    /\ IF Fails(Head(collector))
       THEN /\ jerr' = Head(collector).err
            /\ jpc' = "done"
            /\ cancelled' = cancelled \cup {ParallelJobCtx}
            /\ currentParallelQueryJobs' = currentParallelQueryJobs - NumJobs
            /\ UNCHANGED <<jconsumed, dbHits>>
       ELSE /\ dbHits' = StoreResult(dbHits, Head(collector), jconsumed + 1)
            /\ jconsumed' = jconsumed + 1
            /\ UNCHANGED <<jerr, jpc, cancelled, currentParallelQueryJobs>>
    /\ UNCHANGED <<jreq, jmode, jcur, jobHitsPosition, jobState, hits, reported,
                   jobFrame>>

\* the consumer loop is over (search.go:523): runQueryJobsParallel returns
\* the results, the deferred cancel and Add run, and searchWorkerCommon fills
\* the hits (search.go:606-613)
ParallelReturn ==
    /\ jpc = "par"
    /\ jconsumed = NumJobs
    /\ jpc' = "done"
    /\ cancelled' = cancelled \cup {ParallelJobCtx}
    /\ currentParallelQueryJobs' = currentParallelQueryJobs - NumJobs
    /\ hits' = FillHits(jreq.queries, jobHitsPosition, dbHits)
    /\ UNCHANGED <<jreq, jmode, jcur, jobHitsPosition, jobState, collector,
                   jconsumed, dbHits, jerr, reported, jobFrame>>

\* the cancel function kept in AsyncQueriesContexts is called
\* (search.go:626-627): the async context of the request is cancelled
CancelAsyncContext ==
    /\ jreq.async
    /\ jpc # "idle"
    /\ WorkerCtx(jreq.async) \notin cancelled
    /\ cancelled' = cancelled \cup {WorkerCtx(jreq.async)}
    /\ UNCHANGED <<currentParallelQueryJobs, jreq, jpc, jmode, jcur,
                   jobHitsPosition, jobState, collector, jconsumed, dbHits, hits,
                   jerr, reported, jobFrame>>

\* QueryRunner.Close (search.go:634-636)
Close ==
    /\ jpc # "idle"
    /\ "executionCtx" \notin cancelled
    /\ cancelled' = cancelled \cup {"executionCtx"}
    /\ UNCHANGED <<currentParallelQueryJobs, jreq, jpc, jmode, jcur,
                   jobHitsPosition, jobState, collector, jconsumed, dbHits, hits,
                   jerr, reported, jobFrame>>

NextJobs ==
    \/ SearchWorkerCommon
    \/ RunQueryJobsAdd
    \/ RunQueryJobsDecide
    \/ SequenceJobStart
    \/ SequenceJobReturn
    \/ \E j \in 1..NumJobs : ParallelJobSend(j)
    \/ ParallelConsume
    \/ ParallelReturn
    \/ CancelAsyncContext
    \/ Close

SpecJobs == InitJobs /\ [][NextJobs]_vars


\* C5: in an async search the context handed to the query jobs descends from
\* the async context of the request, so that cancelling the async context
\* cancels the jobs in flight.
C5_JobContextDescendsFromAsyncContext ==
    jreq.async =>
        \A j \in 1..NumJobs :
            jobState[j] = "running" =>
                /\ IsDescendant(JobCtx(jmode), WorkerCtx(jreq.async))
                /\ WorkerCtx(jreq.async) \in cancelled => CtxDone(JobCtx(jmode))

\* the position in `reported` of the first result that carries an error
FirstFailure == CHOOSE k \in 1..Len(reported) :
                    /\ reported[k].err # NoErr
                    /\ \A m \in 1..(k - 1) : reported[m].err = NoErr

\* C6: when the jobs of a request run in parallel and one of them returns an
\* error, the request fails with the error of the first failing job to
\* report, returns no rows, and the context shared by its jobs is cancelled.
C6_ParallelFirstErrorFailsRequest ==
    (jmode = "par" /\ jpc = "done") =>
        IF \A k \in 1..Len(reported) : reported[k].err = NoErr
        THEN jerr = NoErr
        ELSE /\ jerr = reported[FirstFailure].err
             /\ \A i \in 1..Len(hits) : hits[i] = NoRows
             /\ CtxDone(ParallelJobCtx)

\* a parallel request whose first job to report succeeded and two later ones
\* failed has returned the error of the first of the two
C6_Witness ==
    /\ jmode = "par"
    /\ jpc = "done"
    /\ Len(reported) >= 3
    /\ reported[1].err = NoErr
    /\ reported[2].err # NoErr
    /\ reported[3].err # NoErr
    /\ jerr = reported[2].err

\* C7: the rows of a query are returned at the position of the query in the
\* plan, whatever the order in which the jobs complete; a NoDBQuery and an
\* internal Kibana query keep their positions, with empty rows.
C7_HitsAtQueryPositions ==
    (jpc = "done" /\ jerr = NoErr) =>
        /\ Len(hits) = Len(jreq.queries)
        /\ \A i \in 1..Len(jreq.queries) :
               hits[i] = IF jreq.queries[i] = "db" THEN RowsOf(i) ELSE NoRows
        /\ \A j \in 1..NumJobs : dbHits[j] = RowsOf(jobHitsPosition[j])

\* a parallel request whose second job reported before its first, with a
\* query without a job between the two, has returned its hits
C7_Witness ==
    /\ jmode = "par"
    /\ jpc = "done"
    /\ jerr = NoErr
    /\ Len(jreq.queries) = 3
    /\ jreq.queries[2] # "db"
    /\ Len(reported) = 2
    /\ reported[1].jobId = 2
    /\ reported[2].jobId = 1
    /\ hits = <<RowsOf(1), NoRows, RowsOf(3)>>


\* ------------------------------------------------------------------------
\* The parallel ceiling: runQueryJobs (search.go:526-554) run by several
\* requests side by side.
\* ------------------------------------------------------------------------

\* the numbers of jobs a request can have
JobCounts == {1, 12, 13}

RECURSIVE SumJobs(_, _)
SumJobs(S, f) ==
    IF S = {} THEN 0
    ELSE LET r == CHOOSE x \in S : TRUE
         IN f[r] + SumJobs(S \ {r}, f)

InitLimit ==
    /\ AsyncIdle
    /\ otherStored = 0
    /\ otherBodyLen = 0
    /\ EvictIdle
    /\ JobsIdle
    /\ CallIdle

limitFrame == <<asyncVars, evictVars, jobVars, callVars>>

\* search.go:529-543: a request with one job runs it in sequence; any other
\* request adds the number of its jobs to the counter
LimitAdd(r) ==
    /\ lpc[r] = "idle"
    /\ \E n \in JobCounts :
         /\ ln' = [ln EXCEPT ![r] = n]
         /\ IF n = 1
            THEN /\ lpc' = [lpc EXCEPT ![r] = "seq"]
                 /\ UNCHANGED <<currentParallelQueryJobs, lcur>>
            ELSE /\ currentParallelQueryJobs' = currentParallelQueryJobs + n
                 /\ lcur' = [lcur EXCEPT ![r] = currentParallelQueryJobs + n]
                 /\ lpc' = [lpc EXCEPT ![r] = "added"]
    /\ UNCHANGED limitFrame

\* search.go:545-552; `current` is not read after the comparison
LimitDecide(r) ==
    /\ lpc[r] = "added"
    /\ IF ExceedsCeiling(lcur[r])
       THEN /\ currentParallelQueryJobs' = currentParallelQueryJobs - ln[r]
            /\ lpc' = [lpc EXCEPT ![r] = "seq"]
       ELSE /\ lpc' = [lpc EXCEPT ![r] = "par"]
            /\ UNCHANGED currentParallelQueryJobs
    /\ lcur' = [lcur EXCEPT ![r] = 0]
    /\ UNCHANGED <<ln, limitFrame>>

\* runQueryJobsParallel returns, and no deferred Add follows
LimitParallelReturnWithoutAdd(r) ==
    /\ lpc[r] = "par"
    /\ lpc' = [lpc EXCEPT ![r] = "idle"]
    /\ ln' = [ln EXCEPT ![r] = 0]
    /\ lcur' = [lcur EXCEPT ![r] = 0]
    /\ UNCHANGED <<currentParallelQueryJobs, limitFrame>>

\* runQueryJobsParallel returns and the deferred Add runs (search.go:550)
LimitParallelReturn(r) ==
    /\ lpc[r] = "par"
    /\ currentParallelQueryJobs' = currentParallelQueryJobs - ln[r]
    /\ lpc' = [lpc EXCEPT ![r] = "idle"]
    /\ ln' = [ln EXCEPT ![r] = 0]
    /\ lcur' = [lcur EXCEPT ![r] = 0]
    /\ UNCHANGED limitFrame

\* runQueryJobsSequence returns (search.go:540, 547)
LimitSequenceReturn(r) ==
    /\ lpc[r] = "seq"
    /\ lpc' = [lpc EXCEPT ![r] = "idle"]
    /\ ln' = [ln EXCEPT ![r] = 0]
    /\ lcur' = [lcur EXCEPT ![r] = 0]
    /\ UNCHANGED <<currentParallelQueryJobs, limitFrame>>

NextLimit ==
    \/ \E r \in LimitRequests : LimitAdd(r)
    \/ \E r \in LimitRequests : LimitDecide(r)
    \/ \E r \in LimitRequests : LimitParallelReturn(r)
    \/ \E r \in LimitRequests : LimitSequenceReturn(r)

SpecLimit == InitLimit /\ [][NextLimit]_vars

\* the jobs of the requests that run their jobs in parallel
ParallelJobsInFlight == SumJobs({r \in LimitRequests : lpc[r] = "par"}, ln)

\* C8: at any moment at most 25 jobs belong to requests that run their jobs
\* in parallel; a request with exactly one job never runs in parallel.
C8_ParallelJobsWithinCeiling ==
    /\ ParallelJobsInFlight <= 25
    /\ \A r \in LimitRequests : lpc[r] = "par" => ln[r] # 1

\* two requests run 25 jobs in parallel and a third, which would have taken
\* the total over the ceiling, runs its jobs in sequence
C8_Witness ==
    /\ ParallelJobsInFlight = 25
    /\ \E r \in LimitRequests : lpc[r] = "seq" /\ ln[r] > 1


\* ------------------------------------------------------------------------
\* Schemas (schema.Schema, schema.Field) and Schema.ResolveField
\* ------------------------------------------------------------------------

Field(name, type) ==
    [PropertyName |-> name, InternalPropertyName |-> name, Type |-> type]

\* the zero Field
NoField == [PropertyName |-> "", InternalPropertyName |-> "", Type |-> ""]

Schema(fields, aliases) == [Fields |-> fields, Aliases |-> aliases]

\* Schema.ResolveField: the aliases are looked at first, then the fields
ResolveField(schema, name) ==
    IF name \in DOMAIN schema.Aliases
    THEN IF schema.Aliases[name] \in DOMAIN schema.Fields
         THEN [field |-> schema.Fields[schema.Aliases[name]], exists |-> TRUE]
         ELSE [field |-> NoField, exists |-> FALSE]
    ELSE IF name \in DOMAIN schema.Fields
         THEN [field |-> schema.Fields[name], exists |-> TRUE]
         ELSE [field |-> NoField, exists |-> FALSE]

\* ------------------------------------------------------------------------
\* JSON values (types.JSON, QueryMap) and SQL expressions (model.Expr)
\* ------------------------------------------------------------------------

\* a JSON value: its type, and under the field of its type its content
JValue(t, s, n, a, m) == [t |-> t, s |-> s, n |-> n, a |-> a, m |-> m]

EmptyObject == [k \in {} |-> 0]

JString(s) == JValue("string", s, 0, <<>>, EmptyObject)

JNumber(n) == JValue("number", "", n, <<>>, EmptyObject)

JArray(elems) == JValue("array", "", 0, elems, EmptyObject)

\* an object; m is a function from the keys to their values
JObject(m) == JValue("object", "", 0, <<>>, m)

\* what a Go map gives for a key it does not hold: the nil interface
JNil == JValue("nil", "", 0, <<>>, EmptyObject)

One(k, v) == [x \in {k} |-> v]

HasKey(m, k) == k \in DOMAIN m

Get(m, k) == IF k \in DOMAIN m THEN m[k] ELSE JNil

\* the nil Expr
NilExpr == <<"nil">>

NewColumnRef(name) == <<"column", name>>

NewLiteral(value) == <<"literal", value>>

NewInfixExpr(left, op, right) == <<"infix", left, op, right>>

NewPrefixExpr(op, args) == <<"prefix", op, args>>

NewFunction(name, args) == <<"function", name, args>>

\* the elements of a list of expressions that are not nil, in order
RECURSIVE FilterNonEmpty(_)
FilterNonEmpty(exprs) ==
    IF exprs = <<>> THEN <<>>
    ELSE IF Head(exprs) = NilExpr THEN FilterNonEmpty(Tail(exprs))
    ELSE <<Head(exprs)>> \o FilterNonEmpty(Tail(exprs))

RECURSIVE FoldInfix(_, _, _)
FoldInfix(acc, exprs, op) ==
    IF exprs = <<>> THEN acc
    ELSE FoldInfix(NewInfixExpr(acc, op, Head(exprs)), Tail(exprs), op)

\* model.And and model.Or: nil for no expression, the expression itself for
\* one, and the expressions joined by the operator otherwise
CombineExprs(exprs, op) ==
    IF FilterNonEmpty(exprs) = <<>> THEN NilExpr
    ELSE FoldInfix(Head(FilterNonEmpty(exprs)), Tail(FilterNonEmpty(exprs)), op)

And(exprs) == CombineExprs(exprs, "AND")

Or(exprs) == CombineExprs(exprs, "OR")


\* ------------------------------------------------------------------------
\* The query parser (queryparser/query_parser.go)
\* ------------------------------------------------------------------------

\* model.NewSimpleQuery; a call that panicked has no value, which the third
\* field records
SimpleQuery(where, canParse) ==
    [WhereClause |-> where, CanParse |-> canParse, panicked |-> FALSE]

Panicked == [WhereClause |-> NilExpr, CanParse |-> FALSE, panicked |-> TRUE]

\* the table and the schema of the translator
ParserSchema ==
    Schema([n \in {"message", "host"} |-> Field(n, "keyword")],
           One("msg", "message"))

FulltextFields == <<"message">>

TimestampFieldName == "@timestamp"

\* ClickhouseQueryTranslator.ResolveField (query_parser.go:1331-1357)
TranslatorResolveField(fieldName) ==
    IF ResolveField(ParserSchema, fieldName).exists
    THEN ResolveField(ParserSchema, fieldName).field.InternalPropertyName
    ELSE fieldName

\* a string literal of SQL: the quotes, the text and what follows the text
Quoted(text, suffix) == <<"'", text, suffix, "'">>

\* sprint (query_parser.go:1024-1037)
RECURSIVE sprint(_)
sprint(i) ==
    IF i.t = "string" THEN Quoted(i.s, "")
    ELSE IF i.t = "object" THEN sprint(Get(i.m, "value"))
    ELSE <<i.t, i.n>>

\* the only key of a map with one key
TheKey(m) == CHOOSE k \in DOMAIN m : TRUE

parseMatchAll(queryMap) == SimpleQuery(NilExpr, TRUE)

\* query_parser.go:492-507
parseTerm(queryMap) ==
    IF Cardinality(DOMAIN queryMap) = 1
    THEN IF TheKey(queryMap) = "_index"
         THEN SimpleQuery(NewInfixExpr(NewLiteral(<<"0">>), "=",
                              NewLiteral(<<"0 /* ", "_index", "=",
                                           sprint(queryMap["_index"]), " */">>)),
                          TRUE)
         ELSE SimpleQuery(NewInfixExpr(NewColumnRef(TheKey(queryMap)), "=",
                              NewLiteral(sprint(queryMap[TheKey(queryMap)]))),
                          TRUE)
    ELSE SimpleQuery(NilExpr, FALSE)

\* a type assertion v.(string) without the ok result panics on any other value
AssertString(v) == v.t = "string"

\* query_parser.go:659-684
parsePrefix(queryMap) ==
    IF Cardinality(DOMAIN queryMap) # 1 THEN SimpleQuery(NilExpr, FALSE)
    ELSE LET fieldName == TranslatorResolveField(TheKey(queryMap))
             v == queryMap[TheKey(queryMap)]
         IN IF v.t = "string"
            THEN SimpleQuery(NewInfixExpr(NewColumnRef(fieldName), "iLIKE",
                                 NewLiteral(Quoted(v.s, "%"))), TRUE)
            ELSE IF v.t = "object"
            THEN IF AssertString(Get(v.m, "value"))
                 THEN SimpleQuery(NewInfixExpr(NewColumnRef(fieldName), "iLIKE",
                                      NewLiteral(Quoted(Get(v.m, "value").s, "%"))),
                                  TRUE)
                 ELSE Panicked
            ELSE SimpleQuery(NilExpr, FALSE)

\* extractFields (query_parser.go:1006-1021)
RECURSIVE extractFieldsFrom(_, _)
extractFieldsFrom(fields, result) ==
    IF fields = <<>> THEN result
    ELSE IF Head(fields).t # "string" THEN extractFieldsFrom(Tail(fields), result)
    ELSE IF Head(fields).s = "*" THEN FulltextFields
    ELSE extractFieldsFrom(Tail(fields),
                           Append(result, TranslatorResolveField(Head(fields).s)))

extractFields(fields) == extractFieldsFrom(fields, <<>>)

\* lucene.TranslateToSQL
TranslateToSQL(query, fields) == <<"lucene", query, fields>>

\* query_parser.go:723-736
parseQueryString(queryMap) ==
    IF HasKey(queryMap, "fields") /\ queryMap["fields"].t # "array" THEN Panicked
    ELSE IF ~AssertString(Get(queryMap, "query")) THEN Panicked
    ELSE SimpleQuery(
             TranslateToSQL(queryMap["query"].s,
                            IF HasKey(queryMap, "fields")
                            THEN extractFields(queryMap["fields"].a)
                            ELSE FulltextFields),
             TRUE)

\* hex.DecodeString succeeds on the part of the id before "q"
HexIds == {"1d"}

\* query_parser.go:338-403, for a table whose timestamp column is a DateTime64
parseIds(queryMap) ==
    IF ~HasKey(queryMap, "values") THEN SimpleQuery(NilExpr, FALSE)
    ELSE LET val == queryMap["values"]
             values == IF val.t = "array" THEN val.a ELSE <<>>
         IN IF \E n \in 1..Len(values) : ~AssertString(values[n]) THEN Panicked
            ELSE IF values = <<>> THEN SimpleQuery(NilExpr, FALSE)
            ELSE IF \E n \in 1..Len(values) : values[n].s \notin HexIds
            THEN SimpleQuery(NilExpr, TRUE)
            ELSE SimpleQuery(
                     NewInfixExpr(NewColumnRef(TimestampFieldName),
                         IF Len(values) = 1 THEN " = " ELSE " IN ",
                         NewFunction("toDateTime64",
                             <<NewLiteral([n \in 1..Len(values) |->
                                              Quoted(values[n].s, "")]),
                               NewLiteral(<<"3">>)>>)),
                     TRUE)


\* the keys of parseMap (query_parser.go:283-303) that are modelled
ParseMapKeys == {"match_all", "bool", "term", "query", "prefix", "ids",
                 "query_string", "simple_query_string"}

\* what iterateListOrDictAndParse returns
Stmts(stmts, canParse, panicked) ==
    [stmts |-> stmts, canParse |-> canParse, panicked |-> panicked]

\* must_not: the negated clauses are joined (query_parser.go:485)
JoinMustNot(sqlNots) == Or(sqlNots)

\* NOT for every clause that is not nil (query_parser.go:480-484)
Negate(stmts) ==
    [n \in 1..Len(stmts) |->
        IF stmts[n] # NilExpr THEN NewPrefixExpr("NOT", <<stmts[n]>>) ELSE NilExpr]

\* the clamp of minimum_should_match (query_parser.go:449-463)
MinimumShouldMatch(queryMap, andStmts) ==
    IF Len(andStmts) = 0 THEN 1
    ELSE IF Get(queryMap, "minimum_should_match").t # "number" THEN 0
    ELSE IF queryMap["minimum_should_match"].n > 1 THEN 1
    ELSE queryMap["minimum_should_match"].n

RECURSIVE parseQueryMap(_), parseBool(_), iterateListOrDictAndParse(_),
          parseQueryMapArray(_, _), Dispatch(_, _)

\* query_parser.go:278-326; the map is walked in the order Go picks, and the
\* first key with a parser and a dict as its value decides
parseQueryMap(queryMap) ==
    IF \E k \in DOMAIN queryMap : k \in ParseMapKeys /\ queryMap[k].t = "object"
    THEN LET k == CHOOSE x \in DOMAIN queryMap :
                      x \in ParseMapKeys /\ queryMap[x].t = "object"
         IN Dispatch(k, queryMap[k].m)
    ELSE IF DOMAIN queryMap = {} THEN SimpleQuery(NilExpr, TRUE)
    ELSE SimpleQuery(NilExpr, FALSE)

Dispatch(k, qm) ==
    CASE k = "match_all" -> parseMatchAll(qm)
      [] k = "bool" -> parseBool(qm)
      [] k = "term" -> parseTerm(qm)
      [] k = "query" -> parseQueryMap(qm)
      [] k = "prefix" -> parsePrefix(qm)
      [] k = "ids" -> parseIds(qm)
      [] k = "query_string" -> parseQueryString(qm)
      [] k = "simple_query_string" -> parseQueryString(qm)

\* query_parser.go:406-422; done holds the clauses parsed so far
parseQueryMapArray(queryMaps, done) ==
    IF queryMaps = <<>> THEN done
    ELSE IF Head(queryMaps).t # "object"
    THEN parseQueryMapArray(Tail(queryMaps),
             Stmts(Append(done.stmts, NilExpr), FALSE, done.panicked))
    ELSE LET query == parseQueryMap(Head(queryMaps).m)
         IN IF query.panicked THEN Stmts(<<>>, FALSE, TRUE)
            ELSE parseQueryMapArray(Tail(queryMaps),
                     Stmts(Append(done.stmts, query.WhereClause),
                           done.canParse /\ query.CanParse, FALSE))

\* query_parser.go:424-435
iterateListOrDictAndParse(queryMaps) ==
    IF queryMaps.t = "array"
    THEN parseQueryMapArray(queryMaps.a, Stmts(<<>>, TRUE, FALSE))
    ELSE IF queryMaps.t = "object"
    THEN LET simpleQuery == parseQueryMap(queryMaps.m)
         IN Stmts(<<simpleQuery.WhereClause>>, simpleQuery.CanParse,
                  simpleQuery.panicked)
    ELSE Stmts(<<>>, FALSE, FALSE)

\* query_parser.go:438-490
parseBool(queryMap) ==
    LET part(phrase) == IF HasKey(queryMap, phrase)
                        THEN iterateListOrDictAndParse(queryMap[phrase])
                        ELSE Stmts(<<>>, TRUE, FALSE)
        must == part("must")
        filter == part("filter")
        andStmts == must.stmts \o filter.stmts
        minimumShouldMatch == MinimumShouldMatch(queryMap, andStmts)
        shouldUsed == HasKey(queryMap, "should") /\ minimumShouldMatch = 1
        should == IF shouldUsed THEN part("should") ELSE Stmts(<<>>, TRUE, FALSE)
        orSql == Or(should.stmts)
        sqlShould == IF ~shouldUsed THEN And(andStmts)
                     ELSE IF Len(andStmts) = 0 THEN orSql
                     ELSE IF orSql # NilExpr THEN And(<<And(andStmts), orSql>>)
                     ELSE And(andStmts)
        mustNot == part("must_not")
        sql == IF Len(mustNot.stmts) > 0
               THEN And(<<sqlShould, JoinMustNot(Negate(mustNot.stmts))>>)
               ELSE sqlShould
    IN IF must.panicked \/ filter.panicked \/ should.panicked \/ mustNot.panicked
       THEN Panicked
       ELSE SimpleQuery(sql, must.canParse /\ filter.canParse /\ should.canParse
                             /\ mustNot.canParse)

\* a type assertion v.(QueryMap) without the ok result
AssertQueryMap(v) == v.t = "object"

\* parseQueryInternal (query_parser.go:124-173), as far as the query part goes
parseQueryInternal(body) ==
    IF HasKey(body, "query")
    THEN IF AssertQueryMap(body["query"]) THEN parseQueryMap(body["query"].m)
         ELSE Panicked
    ELSE SimpleQuery(NilExpr, TRUE)


\* ------------------------------------------------------------------------
\* SpecParse: parseQueryInternal applied to request bodies
\* ------------------------------------------------------------------------

\* the most clauses in one part of a bool query
MaxClauses == 2

\* the values a body can hold where the parser expects a string or a dict
Leaves == {JString("a"), JString("1d"), JNumber(1), JArray(<<>>),
           JArray(<<JString("1d")>>), JArray(<<JString("zz")>>),
           JArray(<<JNumber(1)>>), JArray(<<JString("msg"), JNumber(1)>>),
           JObject(EmptyObject), JObject(One("value", JString("a"))),
           JObject(One("value", JNumber(1)))}

PrefixMaps == {One(f, v) : f \in {"message", "msg"}, v \in Leaves}

QueryStringMaps ==
    {One("query", q) : q \in Leaves}
    \cup {[k \in {"query", "fields"} |-> IF k = "query" THEN q ELSE f] :
              q \in Leaves, f \in Leaves}
    \cup {One("fields", f) : f \in Leaves}

IdsMaps == {EmptyObject} \cup {One("values", v) : v \in Leaves}

QueryValues ==
    Leaves
    \cup {JObject(EmptyObject), JObject(One("match_all", JObject(EmptyObject))),
          JObject(One("fuzzy", JObject(EmptyObject))),
          JObject(One("term", JString("a")))}
    \cup {JObject(One("prefix", JObject(m))) : m \in PrefixMaps}
    \cup {JObject(One("query_string", JObject(m))) : m \in QueryStringMaps}
    \cup {JObject(One("ids", JObject(m))) : m \in IdsMaps}

\* the columns of the term clauses of each part of a bool query
ClauseColumns == [must |-> <<"m1", "m2", "m3", "m4">>,
                  filter |-> <<"f1", "f2", "f3", "f4">>,
                  should |-> <<"s1", "s2", "s3", "s4">>,
                  must_not |-> <<"n1", "n2", "n3", "n4">>]

BoolParts == {"must", "filter", "should", "must_not"}

TermClause(col) == JObject(One("term", JObject(One(col, JString("1")))))

ClauseList(part, n) == JArray([i \in 1..n |-> TermClause(ClauseColumns[part][i])])

\* minimum_should_match as sent; -1 stands for a body without the key
MinimumShouldMatchValues == {-1, 0, 1, 2}

BoolMap(count, msm) ==
    [k \in {p \in BoolParts : count[p] > 0}
           \cup (IF msm >= 0 THEN {"minimum_should_match"} ELSE {}) |->
        IF k = "minimum_should_match" THEN JNumber(msm)
        ELSE ClauseList(k, count[k])]

BoolValues ==
    {JObject(One("bool", JObject(BoolMap(count, msm)))) :
         count \in [BoolParts -> 0..MaxClauses], msm \in MinimumShouldMatchValues}

Bodies == {EmptyObject} \cup {One("query", q) : q \in QueryValues \cup BoolValues}

\* the runner serves no request
SearchIdle ==
    /\ AsyncIdle
    /\ otherStored = 0
    /\ otherBodyLen = 0
    /\ EvictIdle
    /\ JobsIdle

RunnerIdle ==
    /\ SearchIdle
    /\ StatIdle

InitParse ==
    /\ RunnerIdle
    /\ arg \in Bodies
    /\ ret = <<>>
    /\ called = "no"

callFrame == <<asyncVars, evictVars, currentParallelQueryJobs, jobVars, limitVars,
               statVars, deleted>>

\* ParseQuery calls parseQueryInternal on the body (query_parser.go:42)
ParseQueryInternal ==
    /\ called = "no"
    /\ ret' = parseQueryInternal(arg)
    /\ called' = "returned"
    /\ UNCHANGED <<arg, callFrame>>

NextParse == ParseQueryInternal

SpecParse == InitParse /\ [][NextParse]_vars

\* C11: for every request body, whatever the shapes of its values, parsing
\* ends without a panic: the problem is reported as can_parse = false or as
\* an error.
C11_ParserNeverPanics ==
    called = "returned" => ~ret.panicked


\* a row is the set of the columns whose value is '1'
AllClauseColumns ==
    {ClauseColumns[p][i] : p \in BoolParts, i \in 1..MaxClauses}

\* whether a WHERE clause over term clauses accepts a row
RECURSIVE Accepts(_, _)
Accepts(expr, row) ==
    CASE expr[1] = "nil" -> TRUE
      [] expr[1] = "prefix" -> ~Accepts(expr[3][1], row)
      [] expr[1] = "infix" /\ expr[3] = "AND" ->
             Accepts(expr[2], row) /\ Accepts(expr[4], row)
      [] expr[1] = "infix" /\ expr[3] = "OR" ->
             Accepts(expr[2], row) \/ Accepts(expr[4], row)
      [] expr[1] = "infix" /\ expr[3] = "=" -> expr[2][2] \in row

\* the body is a bool query
IsBoolBody(body) ==
    /\ HasKey(body, "query")
    /\ body["query"].t = "object"
    /\ HasKey(body["query"].m, "bool")

\* the columns of the term clauses of one part of the bool query of a body
PartColumns(body, part) ==
    {TheKey(c.m["term"].m) :
         c \in {Get(body["query"].m["bool"].m, part).a[i] :
                    i \in 1..Len(Get(body["query"].m["bool"].m, part).a)}}

\* minimum_should_match of a body, clamped to at most 1; without the key it
\* is 1 for a query with no must and no filter clause, and 0 otherwise
ClampedMinimumShouldMatch(body) ==
    LET msm == Get(body["query"].m["bool"].m, "minimum_should_match")
    IN IF PartColumns(body, "must") \cup PartColumns(body, "filter") = {} THEN 1
       ELSE IF msm.t # "number" THEN 0
       ELSE IF msm.n >= 1 THEN 1 ELSE msm.n

\* C12: the WHERE clause of a bool query accepts exactly the rows that match
\* every must and filter clause, match one of the should clauses when
\* minimum_should_match is 1, and match none of the must_not clauses.
C12_BoolWhereClause ==
    (called = "returned" /\ IsBoolBody(arg)) =>
        /\ ret.CanParse
        /\ \A row \in SUBSET AllClauseColumns :
               Accepts(ret.WhereClause, row) <=>
                   /\ PartColumns(arg, "must") \subseteq row
                   /\ PartColumns(arg, "filter") \subseteq row
                   /\ (ClampedMinimumShouldMatch(arg) = 1
                         /\ PartColumns(arg, "should") # {})
                          => PartColumns(arg, "should") \cap row # {}
                   /\ PartColumns(arg, "must_not") \cap row = {}


\* ------------------------------------------------------------------------
\* SpecSources: the tables handleSearchCommon queries (search.go:149-226)
\* ------------------------------------------------------------------------

\* the most tables ResolveSources returns for one index pattern
MaxSources == 3

TableNames == {"t1", "t2", "t3", "t4"}

\* the lists ResolveSources can return: tables, each at most once
SourceLists ==
    {l \in UNION {[1..n -> TableNames] : n \in 0..MaxSources} :
         \A i, j \in 1..Len(l) : i # j => l[i] # l[j]}

\* removeNotExistingTables (search.go:327-333)
RECURSIVE removeNotExistingTables(_, _)
removeNotExistingTables(sourcesClickhouse, allKnownTables) ==
    IF sourcesClickhouse = <<>> THEN <<>>
    ELSE IF Head(sourcesClickhouse) \in allKnownTables
    THEN <<Head(sourcesClickhouse)>>
             \o removeNotExistingTables(Tail(sourcesClickhouse), allKnownTables)
    ELSE removeNotExistingTables(Tail(sourcesClickhouse), allKnownTables)

\* search.go:175-177
MatchedTables(in) ==
    IF in.isIndexPattern
    THEN removeNotExistingTables(in.sourcesClickhouse, in.tables)
    ELSE in.sourcesClickhouse

\* search.go:195-198: of several tables one is kept
PickOne(sourcesClickhouse) ==
    IF Len(sourcesClickhouse) > 1 THEN SubSeq(sourcesClickhouse, 2, 2)
    ELSE sourcesClickhouse

\* search.go:184-226: the tables the loop queries, up to the first table that
\* cannot be loaded
RECURSIVE QueriedTables(_, _)
QueriedTables(sourcesClickhouse, tables) ==
    IF sourcesClickhouse = <<>> \/ Head(sourcesClickhouse) \notin tables THEN <<>>
    ELSE <<Head(sourcesClickhouse)>> \o QueriedTables(Tail(sourcesClickhouse), tables)

InitSources ==
    /\ RunnerIdle
    /\ \E l \in SourceLists, pattern \in BOOLEAN, known \in SUBSET TableNames :
           arg = [sourcesClickhouse |-> l, isIndexPattern |-> pattern,
                  tables |-> known]
    /\ ret = <<>>
    /\ called = "no"

\* handleSearchCommon for a pattern that resolved to ClickHouse tables
HandleSearchCommonSources ==
    /\ called = "no"
    /\ ret' = QueriedTables(PickOne(MatchedTables(arg)), arg.tables)
    /\ called' = "returned"
    /\ UNCHANGED <<arg, callFrame>>

NextSources == HandleSearchCommonSources

SpecSources == InitSources /\ [][NextSources]_vars

\* C13: when an index pattern matches more than one table in a search, the
\* query runs against the first of the matched tables, and against no other.
C13_FirstMatchedTableIsQueried ==
    (called = "returned" /\ Len(MatchedTables(arg)) > 1
       /\ MatchedTables(arg)[1] \in arg.tables)
        => ret = <<MatchedTables(arg)[1]>>

\* ------------------------------------------------------------------------
\* SpecRegistry: the schema the registry builds for one index
\* (schema/registry.go) and the resolution of a name in it
\* ------------------------------------------------------------------------

\* entries a configuration block or a table declares at most
MaxDeclared == 2

FieldNames == {"a", "b", "x"}

\* type strings of a configuration; "bogus" is no field type
ConfigTypes == {"keyword", "bogus"}

TypeAlias == "alias"

\* column types of the table catalog; "Weird" has no field type
ColumnTypes == {"Int64", "Weird"}

TypeText == "text"

\* ParseType: a type string of the configuration names a field type or none
ParseType(t) ==
    IF t \in {"keyword", "text", "long", "unsigned_long", "integer", "short",
              "byte", "float", "double", "boolean", "date", "date_nanos",
              "ip", "geo_point", "object"}
    THEN [type |-> t, valid |-> TRUE]
    ELSE [type |-> "", valid |-> FALSE]

\* typeAdapter.Convert (registry.go:20-22)
Convert(t) ==
    IF t = "String" THEN [type |-> "keyword", found |-> TRUE]
    ELSE IF t = "Int64" THEN [type |-> "long", found |-> TRUE]
    ELSE IF t = "DateTime64" THEN [type |-> "timestamp", found |-> TRUE]
    ELSE [type |-> "", found |-> FALSE]

\* the maps from at most MaxDeclared of the names to the values
Declared(values) ==
    UNION {[D -> values] :
               D \in {S \in SUBSET FieldNames : Cardinality(S) <= MaxDeclared}}

\* config.FieldConfiguration
FieldConfiguration(name, type, aliasedField) ==
    [Name |-> name, Type |-> type, AliasedField |-> aliasedField]

NoFields == [n \in {} |-> FieldConfiguration("", "", "")]

\* config.IndexConfiguration; SchemaConfiguration is nil when not present
IndexConfiguration(typeMappings, aliases, present, fields) ==
    [TypeMappings |-> typeMappings, Aliases |-> aliases,
     SchemaConfiguration |-> [present |-> present, Fields |-> fields]]

\* the fields blocks: under each name one field, typed or alias of a name
FieldsBlocks ==
    {[n \in DOMAIN f |-> FieldConfiguration(n, f[n][1], f[n][2])] :
         f \in Declared((ConfigTypes \X {""}) \cup ({TypeAlias} \X FieldNames))}

\* deprecated blocks left in a configuration that has the new block too
LeftOverBlocks ==
    {<<One("a", "keyword"), One("x", "a")>>,
     <<One("b", "bogus"), EmptyObject>>,
     <<EmptyObject, EmptyObject>>}

IndexConfigurations ==
    {IndexConfiguration(t, al, FALSE, NoFields) :
         t \in Declared(ConfigTypes), al \in Declared(FieldNames)}
    \cup {IndexConfiguration(o[1], o[2], TRUE, f) :
              o \in LeftOverBlocks, f \in FieldsBlocks}

\* TableProvider.TableDefinitions for the index: no table, or its columns
NoTable == [found |-> FALSE, Columns |-> EmptyObject]

TableDefinitions ==
    {NoTable} \cup {[found |-> TRUE, Columns |-> c] : c \in Declared(ColumnTypes)}

\* deprecatedConfigInUse (registry.go:52-54)
NewBlockIgnored(indexConfig) == TRUE

deprecatedConfigInUse(indexConfig) == ~indexConfig.SchemaConfiguration.present

\* populateSchemaFromStaticConfiguration (registry.go:83-104)
populateSchemaFromStaticConfiguration(indexConfiguration) ==
    IF deprecatedConfigInUse(indexConfiguration)
    THEN LET m == indexConfiguration.TypeMappings
             valid == {n \in DOMAIN m : ParseType(m[n]).valid}
         IN  [n \in valid |-> Field(n, ParseType(m[n]).type)]
    ELSE LET f == indexConfiguration.SchemaConfiguration.Fields
             valid == {f[k].Name : k \in {k \in DOMAIN f :
                           /\ f[k].Type # TypeAlias
                           /\ ParseType(f[k].Type).valid}}
             of(n) == CHOOSE k \in DOMAIN f : f[k].Name = n /\ f[k].Type # TypeAlias
                                              /\ ParseType(f[k].Type).valid
         IN  [n \in valid |-> Field(n, ParseType(f[of(n)].Type).type)]

\* populateSchemaFromTableDefinition (registry.go:128-143)
populateSchemaFromTableDefinition(definition, fields) ==
    IF definition.found
    THEN LET c == definition.Columns
         IN  [n \in DOMAIN fields \cup DOMAIN c |->
                  IF n \in DOMAIN fields THEN fields[n]
                  ELSE IF Convert(c[n]).found THEN Field(n, Convert(c[n]).type)
                  ELSE Field(n, TypeText)]
    ELSE fields

\* populateAliases (registry.go:106-126)
populateAliases(indexConfiguration, fields) ==
    IF deprecatedConfigInUse(indexConfiguration)
    THEN LET al == indexConfiguration.Aliases
         IN  [n \in {n \in DOMAIN al : al[n] \in DOMAIN fields} |-> al[n]]
    ELSE LET f == indexConfiguration.SchemaConfiguration.Fields
             kept == {k \in DOMAIN f : /\ f[k].Type = TypeAlias
                                       /\ f[k].AliasedField \in DOMAIN fields}
             of(n) == CHOOSE k \in kept : f[k].Name = n
         IN  [n \in {f[k].Name : k \in kept} |-> f[of(n)].AliasedField]

\* loadSchemas for one index (registry.go:35-50)
loadSchemas(indexConfiguration, definition) ==
    LET fields == populateSchemaFromTableDefinition(definition,
                      populateSchemaFromStaticConfiguration(indexConfiguration))
    IN  Schema(fields, populateAliases(indexConfiguration, fields))

InitRegistry ==
    /\ RunnerIdle
    /\ \E c \in IndexConfigurations, d \in TableDefinitions, n \in FieldNames :
           arg = [indexConfiguration |-> c, definition |-> d, fieldName |-> n]
    /\ ret = <<>>
    /\ called = "no"

\* FindSchema (registry.go:65-73) and ResolveField on the schema it found
FindSchemaAndResolve ==
    /\ called = "no"
    /\ LET schema == loadSchemas(arg.indexConfiguration, arg.definition)
       IN  ret' = [schema |-> schema,
                   resolved |-> ResolveField(schema, arg.fieldName)]
    /\ called' = "returned"
    /\ UNCHANGED <<arg, callFrame>>

NextRegistry == FindSchemaAndResolve

SpecRegistry == InitRegistry /\ [][NextRegistry]_vars

\* C14: in every schema the registry produces, resolving a name and then the
\* name of the field that came back gives that same field.
C14_ResolveFieldIdempotent ==
    (called = "returned" /\ ret.resolved.exists)
        => ResolveField(ret.schema, ret.resolved.field.PropertyName) = ret.resolved

\* the declarations of the new block, written in the deprecated dialect
AsDeprecated(indexConfiguration) ==
    LET f == indexConfiguration.SchemaConfiguration.Fields
    IN  IndexConfiguration(
            [n \in {n \in DOMAIN f : f[n].Type # TypeAlias} |-> f[n].Type],
            [n \in {n \in DOMAIN f : f[n].Type = TypeAlias} |-> f[n].AliasedField],
            FALSE, NoFields)

\* C15: the declarations of a new block give the schema that the same
\* declarations give in the deprecated dialect, whatever deprecated blocks the
\* configuration has beside the new block.
C15_DialectsGiveSameSchema ==
    (called = "returned" /\ arg.indexConfiguration.SchemaConfiguration.present)
        => ret.schema = loadSchemas(AsDeprecated(arg.indexConfiguration),
                                    arg.definition)

\* C15 witness: a new block with a typed field and a kept alias, beside
\* deprecated blocks that declare something else
C15_Witness ==
    /\ called = "returned"
    /\ arg.indexConfiguration.SchemaConfiguration.present
    /\ arg.indexConfiguration.TypeMappings # EmptyObject
    /\ arg.indexConfiguration.TypeMappings
           # AsDeprecated(arg.indexConfiguration).TypeMappings
    /\ DOMAIN ret.schema.Aliases # {}
    /\ \E n \in DOMAIN ret.schema.Fields : ret.schema.Fields[n].Type = "keyword"

\* ------------------------------------------------------------------------
\* The transformations of a query (quesma/schema_transformer.go,
\* quesma/schema_array_transformer.go).  Here a string is the sequence of its
\* tokens: a column name is <<"host", ".", "keyword">>, a literal <<"1", "/">>.
\* ------------------------------------------------------------------------

\* strings.Contains, for a one-token substring
Contains(s, token) == \E i \in 1..Len(s) : s[i] = token

\* strings.ReplaceAll of a token
RECURSIVE ReplaceAll(_, _, _)
ReplaceAll(s, old, new) ==
    IF s = <<>> THEN <<>>
    ELSE (IF Head(s) = old THEN new ELSE <<Head(s)>>)
             \o ReplaceAll(Tail(s), old, new)

\* strings.HasPrefix
HasPrefix(s, prefix) ==
    Len(s) >= Len(prefix) /\ SubSeq(s, 1, Len(prefix)) = prefix

\* strings.TrimSuffix
TrimSuffix(s, suffix) ==
    IF Len(s) >= Len(suffix) /\ SubSeq(s, Len(s) - Len(suffix) + 1, Len(s)) = suffix
    THEN SubSeq(s, 1, Len(s) - Len(suffix))
    ELSE s

\* strings.Trim of one token at both ends
RECURSIVE Trim(_, _)
Trim(s, cutset) ==
    IF s = <<>> THEN s
    ELSE IF Head(s) = cutset THEN Trim(Tail(s), cutset)
    ELSE IF s[Len(s)] = cutset THEN Trim(SubSeq(s, 1, Len(s) - 1), cutset)
    ELSE s

\* strings.ToUpper of an operator
ToUpper(op) ==
    IF op \in {"iLIKE", "ilike", "ILIKE"} THEN "ILIKE"
    ELSE IF op \in {"like", "LIKE"} THEN "LIKE"
    ELSE IF op = "and" THEN "AND"
    ELSE IF op = "or" THEN "OR"
    ELSE op

NewTableRef(name) == <<"table", name>>

NewLambdaExpr(args, body) == <<"lambda", args, body>>

\* model.SelectCommand; the order, the limits and the distinct flag of a
\* command pass through every transformation as they are
NewSelectCommand(columns, groupBy, orderBy, fromClause, whereClause, isDistinct) ==
    [Columns |-> columns, GroupBy |-> groupBy, OrderBy |-> orderBy,
     FromClause |-> fromClause, WhereClause |-> whereClause,
     IsDistinct |-> isDistinct]

\* model.Query
Query(tableName, selectCommand) ==
    [TableName |-> tableName, SelectCommand |-> selectCommand]

\* getFromTable (schema_transformer.go:134-141)
getFromTable(fromTable) ==
    LET dots == {i \in 1..Len(fromTable) : fromTable[i] = "."}
        idx == CHOOSE i \in dots : \A j \in dots : i <= j
        cut == IF dots # {}
               THEN Trim(SubSeq(fromTable, idx, Len(fromTable)), ".")
               ELSE fromTable
    IN  Trim(cut, "\"")

\* the value VisitInfix reads from a visited operand (lines 28-47)
OperandValue(e) == IF e[1] \in {"literal", "column"} THEN e[2] ELSE <<>>

\* WhereVisitor (schema_transformer.go:16-124); typeMappings are
\* cfg[tableName].TypeMappings
RECURSIVE WhereVisitor(_, _)
WhereVisitor(e, typeMappings) ==
    IF e[1] = "literal" THEN NewLiteral(e[2])
    ELSE IF e[1] = "column" THEN NewColumnRef(e[2])
    ELSE IF e[1] = "infix"
    THEN LET lhs == WhereVisitor(e[2], typeMappings)
             rhs == WhereVisitor(e[4], typeMappings)
             lhsValue == OperandValue(lhs)
             rhsValue == OperandValue(rhs)
             mappedType == IF lhsValue \in DOMAIN typeMappings
                           THEN typeMappings[lhsValue] ELSE ""
         IN  IF ~Contains(rhsValue, "/") THEN NewInfixExpr(lhs, e[3], rhs)
             ELSE IF mappedType # "ip" THEN NewInfixExpr(lhs, e[3], rhs)
             ELSE IF Len(lhsValue) = 0 \/ Len(rhsValue) = 0
             THEN NewInfixExpr(lhs, e[3], rhs)
             ELSE IF e[3] # "=" /\ e[3] # "iLIKE" THEN NewInfixExpr(lhs, e[3], rhs)
             ELSE NewFunction("isIPAddressInRange",
                      <<NewFunction("CAST", <<NewLiteral(lhsValue),
                                              NewLiteral(<<"'String'">>)>>),
                        NewLiteral(ReplaceAll(rhsValue, "%", <<>>))>>)
    ELSE IF e[1] = "prefix" THEN NewPrefixExpr(e[2], e[3])
    ELSE IF e[1] = "function" THEN NewFunction(e[2], e[3])
    ELSE e

\* applyIpTransformations (schema_transformer.go:149-161); cfg maps a table
\* name to its index configuration
applyIpTransformations(query, cfg) ==
    IF query.SelectCommand.WhereClause = NilExpr THEN query
    ELSE LET fromTable == getFromTable(query.TableName)
             typeMappings == IF fromTable \in DOMAIN cfg
                             THEN cfg[fromTable].TypeMappings
                             ELSE EmptyObject
         IN  [query EXCEPT !.SelectCommand.WhereClause =
                  WhereVisitor(query.SelectCommand.WhereClause, typeMappings)]

TypePoint == "geo_point"

\* the test of lines 202 and 218: the field of the column is a point; a
\* column the schema has no field for has the zero Field
IsAnyColumn(schemaInstance, columnName) == TRUE

IsPointColumn(schemaInstance, columnName) ==
    (IF columnName \in DOMAIN schemaInstance.Fields
     THEN schemaInstance.Fields[columnName] ELSE NoField).Type = TypePoint

\* GeoIpVisitor on an expression that is no SelectCommand (lines 168-186)
GeoIpVisitor(e) == IF e[1] = "table" THEN NewTableRef(e[2]) ELSE e

\* the loops of GeoIpVisitor.VisitSelectCommand (lines 196-228)
RECURSIVE GeoExpand(_, _)
GeoExpand(exprs, schemaInstance) ==
    IF exprs = <<>> THEN <<>>
    ELSE LET expr == Head(exprs)
         IN  (IF expr[1] = "column" /\ IsPointColumn(schemaInstance, expr[2])
              THEN <<NewColumnRef(expr[2] \o <<"::", "lat">>),
                     NewColumnRef(expr[2] \o <<"::", "lon">>)>>
              ELSE <<GeoIpVisitor(expr)>>)
                 \o GeoExpand(Tail(exprs), schemaInstance)

\* GeoIpVisitor.VisitSelectCommand (schema_transformer.go:188-237); found is
\* what FindSchema says of the table; replaced tells a new command was built
GeoIpVisitSelectCommand(e, found) ==
    IF ~found.exists THEN [command |-> e, replaced |-> FALSE]
    ELSE [command |->
              NewSelectCommand(GeoExpand(e.Columns, found.schema),
                               GeoExpand(e.GroupBy, found.schema), e.OrderBy,
                               IF e.FromClause # NilExpr
                               THEN GeoIpVisitor(e.FromClause) ELSE NilExpr,
                               e.WhereClause, e.IsDistinct),
          replaced |-> TRUE]

\* schemaRegistry.FindSchema (registry.go:65-73) among the schemas of the
\* configured indexes
FindSchema(schemas, name) ==
    IF name \in DOMAIN schemas THEN [schema |-> schemas[name], exists |-> TRUE]
    ELSE [schema |-> Schema(EmptyObject, EmptyObject), exists |-> FALSE]

\* applyGeoTransformations (schema_transformer.go:239-251)
applyGeoTransformations(query, schemas) ==
    IF query.SelectCommand.WhereClause = NilExpr THEN query
    ELSE LET fromTable == getFromTable(query.TableName)
             visited == GeoIpVisitSelectCommand(query.SelectCommand,
                                                FindSchema(schemas, fromTable))
         IN  IF visited.replaced
             THEN [query EXCEPT !.SelectCommand = visited.command]
             ELSE query

\* ArrayTypeVisitor.dbColumnType (schema_array_transformer.go:41-56); cols
\* are the columns of the table with the string of their type
dbColumnType(cols, fieldName) ==
    LET tableColumnName ==
            ReplaceAll(TrimSuffix(fieldName, <<".", "keyword">>), ".", <<"::">>)
    IN  IF tableColumnName \in DOMAIN cols THEN cols[tableColumnName] ELSE <<>>

ArrayOfString == <<"Array", "(", "String", ")">>

ArrayOfInt64 == <<"Array", "(", "Int64", ")">>

\* ArrayTypeVisitor on an expression that is no SelectCommand
\* (schema_array_transformer.go:58-172, 246-256)
RECURSIVE ArrayTypeVisitor(_, _)
ArrayVisitChildren(args, cols) ==
    LET kept == SelectSeq(args, LAMBDA a : a # NilExpr)
    IN  [i \in 1..Len(kept) |-> ArrayTypeVisitor(kept[i], cols)]

ArrayTypeVisitor(e, cols) ==
    IF e[1] = "infix"
    THEN LET dbType == IF e[2][1] = "column" THEN dbColumnType(cols, e[2][2])
                       ELSE <<>>
             op == ToUpper(e[3])
         IN  IF HasPrefix(dbType, <<"Array">>) /\ op \in {"ILIKE", "LIKE"}
                /\ dbType = ArrayOfString
             THEN NewFunction("arrayExists",
                      <<NewLambdaExpr(<<"x">>,
                            NewInfixExpr(NewLiteral(<<"x">>), op,
                                         ArrayTypeVisitor(e[4], cols))),
                        e[2]>>)
             ELSE IF HasPrefix(dbType, <<"Array">>) /\ e[3] = "="
             THEN NewFunction("has", <<e[2], ArrayTypeVisitor(e[4], cols)>>)
             ELSE NewInfixExpr(ArrayTypeVisitor(e[2], cols), e[3],
                               ArrayTypeVisitor(e[4], cols))
    ELSE IF e[1] = "prefix"
    THEN NewPrefixExpr(e[2], ArrayVisitChildren(e[3], cols))
    ELSE IF e[1] = "function"
    THEN LET dbType == IF Len(e[3]) = 1 /\ e[3][1][1] = "column"
                       THEN dbColumnType(cols, e[3][1][2]) ELSE <<>>
         IN  IF HasPrefix(dbType, <<"Array">>) /\ e[2] = "sumOrNull"
                /\ dbType = ArrayOfInt64
             THEN NewFunction(e[2],
                      <<NewFunction("arrayReduce",
                            <<NewLiteral(<<"'", e[2], "'">>), e[3][1]>>)>>)
             ELSE NewFunction(e[2], ArrayVisitChildren(e[3], cols))
    ELSE IF e[1] = "table" THEN NewTableRef(e[2])
    ELSE IF e[1] = "lambda"
    THEN NewLambdaExpr(e[2], ArrayTypeVisitor(e[3], cols))
    ELSE e

\* model.GetUsedColumns: the column references of an expression
RECURSIVE GetUsedColumns(_)
GetUsedColumnsOfAll(exprs) ==
    UNION {GetUsedColumns(exprs[i]) : i \in 1..Len(exprs)}

GetUsedColumns(e) ==
    IF e[1] = "column" THEN {e[2]}
    ELSE IF e[1] = "infix" THEN GetUsedColumns(e[2]) \cup GetUsedColumns(e[4])
    ELSE IF e[1] \in {"prefix", "function"} THEN GetUsedColumnsOfAll(e[3])
    ELSE IF e[1] = "lambda" THEN GetUsedColumns(e[3])
    ELSE {}

\* ArrayTypeVisitor.VisitSelectCommand (schema_array_transformer.go:174-244);
\* tables are the tables of the log manager
ArrayVisitSelectCommand(e, tableName, schemas, tables) ==
    IF ~FindSchema(schemas, tableName).exists THEN e
    ELSE IF tableName \notin DOMAIN tables THEN e
    ELSE LET cols == tables[tableName]
             allColumns == GetUsedColumnsOfAll(e.Columns)
                           \cup (IF e.WhereClause # NilExpr
                                 THEN GetUsedColumns(e.WhereClause) ELSE {})
             hasArrayColumn ==
                 \E col \in allColumns :
                     HasPrefix(dbColumnType(cols, col), <<"Array">>)
         IN  IF ~hasArrayColumn THEN e
             ELSE NewSelectCommand(
                      [i \in 1..Len(e.Columns) |->
                           ArrayTypeVisitor(e.Columns[i], cols)],
                      [i \in 1..Len(e.GroupBy) |->
                           ArrayTypeVisitor(e.GroupBy[i], cols)],
                      e.OrderBy,
                      IF e.FromClause # NilExpr
                      THEN ArrayTypeVisitor(e.FromClause, cols) ELSE NilExpr,
                      IF e.WhereClause # NilExpr
                      THEN ArrayTypeVisitor(e.WhereClause, cols) ELSE NilExpr,
                      e.IsDistinct)

\* applyArrayTransformations: the command is replaced by what the
\* ArrayTypeVisitor makes of it
applyArrayTransformations(query, schemas, tables) ==
    [query EXCEPT !.SelectCommand =
         ArrayVisitSelectCommand(query.SelectCommand,
                                 getFromTable(query.TableName), schemas, tables)]

\* SchemaCheckPass.Transform on one query (schema_transformer.go:253-277):
\* the command after each transformation of the chain
TransformStages(query, cfg, schemas, tables) ==
    LET ip == applyIpTransformations(query, cfg)
        geo == applyGeoTransformations(ip, schemas)
    IN  [ip |-> ip, geo |-> geo,
         array |-> applyArrayTransformations(geo, schemas, tables)]

\* TransformationPipeline.Transform (pipeline of one SchemaCheckPass)
PipelineTransform(query, cfg, schemas, tables) ==
    TransformStages(query, cfg, schemas, tables).array

\* ------------------------------------------------------------------------
\* SpecTransform: the transformation pipeline on one query of the table logs
\* ------------------------------------------------------------------------

\* columns and group-by expressions of a command at most
MaxColumns == 2

\* the table logs of the log manager: its columns with the string of their type
LogsCols ==
    [n \in {<<"ip">>, <<"s">>, <<"arr">>, <<"nums">>,
            <<"p", "::", "lat">>, <<"p", "::", "lon">>} |->
         IF n = <<"arr">> THEN ArrayOfString
         ELSE IF n = <<"nums">> THEN ArrayOfInt64
         ELSE IF n \in {<<"ip">>, <<"s">>} THEN <<"String">>
         ELSE <<"Float64">>]

Tables == [t \in {<<"logs">>} |-> LogsCols]

\* the configuration of logs: an ip field, a point field and a keyword field
Cfg ==
    [t \in {<<"logs">>} |->
         IndexConfiguration(
             [n \in {<<"ip">>, <<"p">>, <<"s">>} |->
                  IF n = <<"ip">> THEN "ip"
                  ELSE IF n = <<"p">> THEN TypePoint ELSE "keyword"],
             EmptyObject, FALSE, NoFields)]

\* the schemas of the registry for Cfg and the table logs
Schemas ==
    [t \in DOMAIN Cfg |->
         loadSchemas(Cfg[t],
             [found |-> TRUE,
              Columns |-> [n \in DOMAIN LogsCols |->
                               IF LogsCols[n] = <<"String">> THEN "String"
                               ELSE "Weird"]])]

QueryTableNames == {<<"logs">>, <<"db", ".", "logs">>}

WhereColumns == {<<"ip">>, <<"s">>, <<"arr">>, <<"nums">>, <<"arr", ".", "keyword">>}

WhereOps == {"=", "iLIKE", "<"}

WhereLiterals == {<<"1">>, <<"1", "/", "8">>, <<"%", "1", "/", "%">>}

\* the predicates col op lit
Predicates ==
    {NewInfixExpr(NewColumnRef(c), op, NewLiteral(l)) :
         c \in WhereColumns, op \in WhereOps, l \in WhereLiterals}

\* the WHERE clauses: none, a predicate, and a predicate under NOT, in a
\* function, under AND and under OR
WhereClauses ==
    {NilExpr} \cup Predicates
    \cup {NewPrefixExpr("NOT", <<q>>) : q \in Predicates}
    \cup {NewFunction("assumeNotNull", <<q>>) : q \in Predicates}
    \cup {NewInfixExpr(q, "AND",
              NewInfixExpr(NewColumnRef(<<"arr">>), "=", NewLiteral(<<"1">>))) :
              q \in Predicates}
    \cup {NewInfixExpr(
              NewInfixExpr(NewColumnRef(<<"s">>), "=", NewLiteral(<<"1">>)),
              "OR", q) : q \in Predicates}

SelectedExprs ==
    {NewColumnRef(<<"p">>), NewColumnRef(<<"s">>), NewColumnRef(<<"arr">>),
     NewFunction("sumOrNull", <<NewColumnRef(<<"nums">>)>>)}

GroupedExprs == {NewColumnRef(<<"p">>), NewColumnRef(<<"s">>)}

SelectCommands ==
    {NewSelectCommand(columns, groupBy, <<>>, NewTableRef(<<"logs">>), where, FALSE) :
         columns \in UNION {[1..n -> SelectedExprs] : n \in 0..MaxColumns},
         groupBy \in UNION {[1..n -> GroupedExprs] : n \in 0..1},
         where \in WhereClauses}

InitTransform ==
    /\ RunnerIdle
    /\ arg \in {Query(t, c) : t \in QueryTableNames, c \in SelectCommands}
    /\ ret = <<>>
    /\ called = "no"

\* the pipeline transforms the query, and then transforms its own output
TransformTwice ==
    /\ called = "no"
    /\ LET stages == TransformStages(arg, Cfg, Schemas, Tables)
       IN  ret' = [ip |-> stages.ip, geo |-> stages.geo, array |-> stages.array,
                   again |-> PipelineTransform(stages.array, Cfg, Schemas, Tables)]
    /\ called' = "returned"
    /\ UNCHANGED <<arg, callFrame>>

NextTransform == TransformTwice

SpecTransform == InitTransform /\ [][NextTransform]_vars

\* C16: the pipeline run on its own output gives the command it gave once.
C16_PipelineIdempotent ==
    called = "returned" => ret.again = ret.array

\* C16 witness: a command that each of the three transformations changed
C16_Witness ==
    /\ called = "returned"
    /\ ret.ip # arg
    /\ ret.geo # ret.ip
    /\ ret.array # ret.geo
    /\ ret.again = ret.array

\* the declared type of a column of logs
DeclaredType(columnName) ==
    IF columnName \in DOMAIN Cfg[<<"logs">>].TypeMappings
    THEN Cfg[<<"logs">>].TypeMappings[columnName] ELSE ""

\* an infix col op lit whose literal has a "/" and whose column is an ip
IsIpRangePredicate(e) ==
    /\ e[1] = "infix"
    /\ e[2][1] = "column"
    /\ e[4][1] = "literal"
    /\ Contains(e[4][2], "/")
    /\ DeclaredType(e[2][2]) = "ip"

\* the WHERE tree with every ip range predicate under = or iLIKE rewritten,
\* at any depth
RECURSIVE RewrittenAtAnyDepth(_)
RewrittenAtAnyDepth(e) ==
    IF e[1] = "infix"
    THEN IF IsIpRangePredicate(e)
         THEN IF e[3] \in {"=", "iLIKE"}
              THEN NewFunction("isIPAddressInRange",
                       <<NewFunction("CAST", <<NewLiteral(e[2][2]),
                                               NewLiteral(<<"'String'">>)>>),
                         NewLiteral(SelectSeq(e[4][2], LAMBDA c : c # "%"))>>)
              ELSE e
         ELSE NewInfixExpr(RewrittenAtAnyDepth(e[2]), e[3],
                           RewrittenAtAnyDepth(e[4]))
    ELSE IF e[1] \in {"prefix", "function"}
    THEN <<e[1], e[2], [i \in 1..Len(e[3]) |-> RewrittenAtAnyDepth(e[3][i])]>>
    ELSE e

\* C17: every ip range predicate col = lit or col iLIKE lit of the WHERE tree is
\* rewritten to isIPAddressInRange(CAST(col, 'String'), lit without %), at any
\* depth of the tree; an infix with another operator is left as it is.
C17_IpRewriteAtAnyDepth ==
    (called = "returned" /\ arg.SelectCommand.WhereClause # NilExpr)
        => ret.ip.SelectCommand.WhereClause
               = RewrittenAtAnyDepth(arg.SelectCommand.WhereClause)

\* the expressions with every column of type geo_point replaced by its two
\* refs
RECURSIVE PointsExpanded(_)
PointsExpanded(exprs) ==
    IF exprs = <<>> THEN <<>>
    ELSE (IF Head(exprs)[1] = "column" /\ DeclaredType(Head(exprs)[2]) = "geo_point"
          THEN <<NewColumnRef(Head(exprs)[2] \o <<"::", "lat">>),
                 NewColumnRef(Head(exprs)[2] \o <<"::", "lon">>)>>
          ELSE <<Head(exprs)>>) \o PointsExpanded(Tail(exprs))

\* C18: with or without a WHERE clause, the geo expansion replaces each
\* geo_point column of columns and group_by by col::lat and col::lon, keeps
\* every other column, and leaves the WHERE clause as it was.
C18_GeoExpansion ==
    called = "returned"
        => /\ ret.geo.SelectCommand.Columns
                  = PointsExpanded(ret.ip.SelectCommand.Columns)
           /\ ret.geo.SelectCommand.GroupBy
                  = PointsExpanded(ret.ip.SelectCommand.GroupBy)
           /\ ret.geo.SelectCommand.WhereClause = ret.ip.SelectCommand.WhereClause

\* C19: an equality col = lit is rewritten to has(col, lit) exactly when the DB
\* type of col is Array(String); on a column of another type it passes
\* through unchanged.
C19_HasOnlyForArrayOfString ==
    LET in == ret.geo.SelectCommand.WhereClause
        out == ret.array.SelectCommand.WhereClause
    IN  (/\ called = "returned"
         /\ in[1] = "infix"
         /\ in[3] = "="
         /\ in[2][1] = "column"
         /\ in[4][1] = "literal")
            => IF dbColumnType(LogsCols, in[2][2]) = ArrayOfString
               THEN out = NewFunction("has", <<in[2], in[4]>>)
               ELSE out = in

\* ------------------------------------------------------------------------
\* SpecHighlight: Highlighter.HighlightValue (model/highlighter.go,
\* src/unnamed/part_004); a value is the sequence of its characters
\* ------------------------------------------------------------------------

\* characters of a value at most
MaxValueLen == 3

\* tokens of a column at most
MaxTokens == 2

ValueChars == {"a", "A", "b"}

Values == UNION {[1..n -> ValueChars] : n \in 0..MaxValueLen}

\* the highlighter visitor lowers every token it stores (part_004:196)
TokenTexts == UNION {[1..n -> {"a", "b"}] : n \in 0..2}

TokenSets == {T \in SUBSET TokenTexts : Cardinality(T) <= MaxTokens}

\* model.Highlighter with the tokens of the one column asked for
Highlighter(tokens, preTags, postTags) ==
    [Tokens |-> tokens, PreTags |-> preTags, PostTags |-> postTags]

Highlighters ==
    {Highlighter(T, tags[1], tags[2]) :
         T \in TokenSets,
         tags \in {<<<<<<"<em>">>>>, <<<<"</em>">>>>>>, <<<<>>, <<>>>>,
                   <<<<<<"<em>">>>>, <<>>>>, <<<<>>, <<<<"</em>">>>>>>}}

\* strings.ToLower
ToLower(s) ==
    [i \in 1..Len(s) |-> IF s[i] = "A" THEN "a" ELSE IF s[i] = "B" THEN "b" ELSE s[i]]

\* strings.Index: the offset of the first occurrence, -1 when there is none
Index(s, substr) ==
    LET found == {i \in 0..(Len(s) - Len(substr)) :
                      SubSeq(s, i + 1, i + Len(substr)) = substr}
    IN  IF found = {} THEN -1 ELSE CHOOSE i \in found : \A j \in found : i <= j

\* the orders sort.Slice can leave the elements of S in (an unstable sort,
\* over the elements of a map or of a slice); S holds <<key, element>> pairs
RECURSIVE SortedOrders(_)
SortedOrders(S) ==
    IF S = {} THEN {<<>>}
    ELSE UNION {{<<m[2]>> \o rest : rest \in SortedOrders(S \ {m})} :
                    m \in {m \in S : \A o \in S : m[1] <= o[1]}}

\* GetSortedTokens (part_004:35-44): longer tokens first
GetSortedTokens(h) ==
    SortedOrders({<<0 - Len(token), token>> : token \in h.Tokens})

\* the loop of lines 84-95 for one token, from offset pos
RECURSIVE TokenMatches(_, _, _)
TokenMatches(lowerValue, token, pos) ==
    IF pos >= Len(lowerValue) THEN <<>>
    ELSE LET idx == Index(SubSeq(lowerValue, pos + 1, Len(lowerValue)), token)
             start == pos + idx
             end == start + Len(token)
         IN  IF idx = -1 THEN <<>>
             ELSE <<[start |-> start, end |-> end]>>
                      \o TokenMatches(lowerValue, token, end)

\* the loop of lines 79-96 over the tokens
RECURSIVE FindMatches(_, _)
FindMatches(lowerValue, tokensList) ==
    IF tokensList = <<>> THEN <<>>
    ELSE (IF Head(tokensList) = <<>> THEN <<>>
          ELSE TokenMatches(lowerValue, Head(tokensList), 0))
             \o FindMatches(lowerValue, Tail(tokensList))

\* the merge of lines 107-118, on the matches sorted by start
RECURSIVE MergeMatches(_, _)
MergeMatches(mergedMatches, matches) ==
    IF matches = <<>> THEN mergedMatches
    ELSE LET m == Head(matches)
             lastMerged == Len(mergedMatches)
         IN  IF Len(mergedMatches) > 0 /\ m.start <= mergedMatches[lastMerged].end
             THEN MergeMatches(
                      [mergedMatches EXCEPT ![lastMerged].end =
                           IF m.end > @ THEN m.end ELSE @],
                      Tail(matches))
             ELSE MergeMatches(Append(mergedMatches, m), Tail(matches))

\* the matches of a slice, as a set
Elements(matches) == {matches[i] : i \in 1..Len(matches)}

\* the highlights of lines 120-126; indexing a missing tag panics
Highlights(h, value, mergedMatches) ==
    IF Len(h.PreTags) < 1 \/ Len(h.PostTags) < 1
    THEN [highlights |-> <<>>, panicked |-> TRUE]
    ELSE [highlights |->
              [i \in 1..Len(mergedMatches) |->
                   h.PreTags[1]
                       \o SubSeq(value, mergedMatches[i].start + 1,
                                 mergedMatches[i].end)
                       \o h.PostTags[1]],
          panicked |-> FALSE]

InitHighlight ==
    /\ RunnerIdle
    /\ arg \in [h : Highlighters, value : Values]
    /\ ret = <<>>
    /\ called = "no"

\* HighlightValue (part_004:62-126)
HighlightValue ==
    /\ called = "no"
    /\ IF Len(arg.h.PreTags) < 1 /\ Len(arg.h.PostTags) < 1
       THEN ret' = [highlights |-> <<>>, panicked |-> FALSE]
       ELSE \E tokensList \in GetSortedTokens(arg.h) :
                LET matches == FindMatches(ToLower(arg.value), tokensList)
                IN  IF Len(matches) = 0
                    THEN ret' = [highlights |-> <<>>, panicked |-> FALSE]
                    ELSE \E sorted \in SortedOrders({<<m.start, m>> :
                                                        m \in Elements(matches)}) :
                             ret' = Highlights(arg.h, arg.value,
                                               MergeMatches(<<>>, sorted))
    /\ called' = "returned"
    /\ UNCHANGED <<arg, callFrame>>

NextHighlight == HighlightValue

SpecHighlight == InitHighlight /\ [][NextHighlight]_vars

\* the positions of the value inside a case-insensitive occurrence of a token
CoveredPositions(value, tokens) ==
    {i \in 1..Len(value) :
         \E token \in tokens \ {<<>>} :
             \E s \in 1..(Len(value) - Len(token) + 1) :
                 /\ s <= i
                 /\ i < s + Len(token)
                 /\ ToLower(SubSeq(value, s, s + Len(token) - 1)) = ToLower(token)}

\* the maximal runs of covered positions, left to right, from position i on
RECURSIVE RunsFrom(_, _, _)
RunsFrom(value, covered, i) ==
    IF i > Len(value) THEN <<>>
    ELSE IF i \notin covered THEN RunsFrom(value, covered, i + 1)
    ELSE LET j == CHOOSE j \in i..Len(value) :
                      /\ \A k \in i..j : k \in covered
                      /\ j + 1 \notin covered
         IN  <<SubSeq(value, i, j)>> \o RunsFrom(value, covered, j + 1)

\* C20: the fragments HighlightValue emits, their tags stripped, are the
\* merged runs of the case-insensitive occurrences of the tokens in the value,
\* from left to right.
C20_FragmentsAreMergedRuns ==
    (called = "returned" /\ Len(arg.h.PreTags) >= 1 /\ Len(arg.h.PostTags) >= 1)
        => [i \in 1..Len(ret.highlights) |->
                SubSeq(ret.highlights[i], Len(arg.h.PreTags[1]) + 1,
                       Len(ret.highlights[i]) - Len(arg.h.PostTags[1]))]
               = RunsFrom(arg.value, CoveredPositions(arg.value, arg.h.Tokens), 1)

\* C30: HighlightValue never fails at run time, whatever tag lists the
\* request supplied: it returns fragments without indexing an empty tag list.
C30_HighlightValueNeverPanics ==
    called = "returned" => ~ret.panicked

\* ------------------------------------------------------------------------
\* SpecTokens: the tokens the highlighter visitor collects from a WHERE
\* clause (src/unnamed/part_004:128-215)
\* ------------------------------------------------------------------------

\* strings.TrimPrefix
TrimPrefix(s, prefix) ==
    IF HasPrefix(s, prefix) THEN SubSeq(s, Len(prefix) + 1, Len(s)) ELSE s

\* the token VisitInfix stores for a string literal (part_004:192-199)
TokenOfLiteral(literalAsString) ==
    ToLower(TrimSuffix(TrimSuffix(TrimPrefix(TrimPrefix(literalAsString,
                                                        <<"'", "%">>),
                                             <<"%">>),
                                  <<"'">>),
                       <<"%">>))

\* the highlighter visitor (part_004:140-215): the <<column, token>> pairs it
\* stores while it visits e
RECURSIVE HighlighterVisit(_)
HighlighterVisit(e) ==
    IF e[1] = "infix"
    THEN (IF /\ e[3] \in {"iLIKE", "LIKE", "IN", "="}
             /\ e[2][1] = "column"
             /\ e[4][1] = "literal"
          THEN {<<e[2][2], TokenOfLiteral(e[4][2])>>}
          ELSE {})
             \cup HighlighterVisit(e[2]) \cup HighlighterVisit(e[4])
    ELSE IF e[1] \in {"prefix", "function"}
    THEN UNION {HighlighterVisit(e[3][i]) : i \in 1..Len(e[3])}
    ELSE {}

\* SetTokensToHighlight (part_004:52-56): Tokens maps a column to its tokens
SetTokensToHighlight(whereClause) ==
    LET stored == HighlighterVisit(whereClause)
    IN  [c \in {p[1] : p \in stored} |-> {p[2] : p \in {q \in stored : q[1] = c}}]

\* string literals of a WHERE clause: a text, bare or in quotes and percent
\* signs as the parser writes term, prefix and match clauses
QuotedLiterals ==
    {(IF quoted THEN <<"'">> ELSE <<>>) \o pre \o text \o post
         \o (IF quoted THEN <<"'">> ELSE <<>>) :
         quoted \in BOOLEAN,
         pre \in {<<>>, <<"%">>},
         text \in {<<"A">>, <<"b">>, <<"A", "b">>},
         post \in {<<>>, <<"%">>}}

TokenOps == {"=", "IN", "LIKE", "iLIKE", "<"}

TokenColumns == {<<"message">>, <<"host">>}

TokenPredicates ==
    {NewInfixExpr(NewColumnRef(c), op, NewLiteral(l)) :
         c \in TokenColumns, op \in TokenOps, l \in QuotedLiterals}
    \cup {NewInfixExpr(NewLiteral(l), "=", NewColumnRef(<<"host">>)) :
              l \in QuotedLiterals}

TokenWhereClauses ==
    TokenPredicates
    \cup {NewPrefixExpr("NOT", <<q>>) : q \in TokenPredicates}
    \cup {NewInfixExpr(q, "AND",
              NewInfixExpr(NewColumnRef(<<"host">>), "iLIKE",
                           NewLiteral(<<"'", "%", "b", "%", "'">>))) :
              q \in TokenPredicates}

InitTokens ==
    /\ RunnerIdle
    /\ arg \in TokenWhereClauses
    /\ ret = <<>>
    /\ called = "no"

SetTokens ==
    /\ called = "no"
    /\ ret' = SetTokensToHighlight(arg)
    /\ called' = "returned"
    /\ UNCHANGED <<arg, callFrame>>

NextTokens == SetTokens

SpecTokens == InitTokens /\ [][NextTokens]_vars

\* the text of a literal without the quotes and percent signs around it
RECURSIVE Unwrapped(_)
Unwrapped(s) ==
    IF s = <<>> THEN s
    ELSE IF Head(s) \in {"'", "%"} THEN Unwrapped(Tail(s))
    ELSE IF s[Len(s)] \in {"'", "%"} THEN Unwrapped(SubSeq(s, 1, Len(s) - 1))
    ELSE s

\* C21: for an infix with operator =, IN, LIKE or iLIKE, a column on the left
\* and a string literal on the right, the token recorded for the column is the
\* literal in lower case without the quotes and percent signs around it.
C21_TokenIsUnwrappedLiteral ==
    (/\ called = "returned"
     /\ arg[1] = "infix"
     /\ arg[3] \in {"=", "IN", "LIKE", "iLIKE"}
     /\ arg[2][1] = "column"
     /\ arg[4][1] = "literal")
        => /\ arg[2][2] \in DOMAIN ret
           /\ ret[arg[2][2]] = {ToLower(Unwrapped(arg[4][2]))}

\* ---------------------------------------------------------------------------
\* Classification of a search request by its metadata
\* (query_parser.go:243-253, 1042-1204, 1360-1381)
\* ---------------------------------------------------------------------------

\* model.DefaultSizeListQuery, the size of a request that names none
DefaultSizeListQuery == 10

\* x.(QueryMap), x.([]any) and x.(string) with the ok of the assertion
IsQueryMap(v) == v.t = "object"

\* model.NewSearchQueryInfoNormal
NewSearchQueryInfoNormal == [Typ |-> "Normal", FieldName |-> "", I1 |-> 0, I2 |-> 0]

SearchQueryInfo(typ, fieldName, i1, i2) ==
    [Typ |-> typ, FieldName |-> fieldName, I1 |-> i1, I2 |-> i2]

\* parseMetadata: the request without the keys of the query itself
parseMetadata(queryMap) ==
    [k \in DOMAIN queryMap \ {"query", "bool", "query_string", "index_filter"} |->
        queryMap[k]]

\* parseSizeExists: the size and whether the request holds one
parseSizeExists(queryMap) ==
    IF ~HasKey(queryMap, "size")
    THEN [size |-> DefaultSizeListQuery, ok |-> FALSE]
    ELSE IF queryMap["size"].t = "number"
    THEN [size |-> queryMap["size"].n, ok |-> TRUE]
    ELSE [size |-> DefaultSizeListQuery, ok |-> FALSE]

parseSize(queryMap, defaultSize) ==
    IF ~HasKey(queryMap, "size") THEN defaultSize
    ELSE IF queryMap["size"].t = "number" THEN queryMap["size"].n
    ELSE defaultSize

\* isItFacetsRequest: aggs.sample.aggs holds sample_count and
\* top_values.terms with a size and a string field, aggs.sample.sampler holds
\* a shard_size, and aggs.sample.aggs has 2 keys, or 4 with min_value and
\* max_value
isItFacetsRequest(queryMap) ==
    LET no == [info |-> NewSearchQueryInfoNormal, ok |-> FALSE]
        outer == Get(queryMap, "aggs")
        sample == Get(outer.m, "sample")
        aggs == Get(sample.m, "aggs")
        topValues == Get(aggs.m, "top_values")
        terms == Get(topValues.m, "terms")
        sampler == Get(sample.m, "sampler")
        fieldName == TranslatorResolveField(Get(terms.m, "field").s)
        size == parseSizeExists(terms.m)
        aggsNr == Cardinality(DOMAIN aggs.m)
    IN IF ~IsQueryMap(outer) THEN no
       ELSE IF ~IsQueryMap(sample) THEN no
       ELSE IF ~IsQueryMap(aggs) THEN no
       ELSE IF ~HasKey(aggs.m, "sample_count") THEN no
       ELSE IF ~IsQueryMap(topValues) THEN no
       ELSE IF ~IsQueryMap(terms) THEN no
       ELSE IF ~size.ok THEN no
       ELSE IF ~HasKey(terms.m, "field") THEN no
       ELSE IF Get(terms.m, "field").t # "string" THEN no
       ELSE IF ~IsQueryMap(sampler) THEN no
       ELSE IF Get(sampler.m, "shard_size").t # "number" THEN no
       ELSE IF aggsNr = 2
       THEN [info |-> SearchQueryInfo("Facets", fieldName, size.size,
                                      Get(sampler.m, "shard_size").n),
             ok |-> TRUE]
       ELSE IF /\ aggsNr = 4
               /\ HasKey(aggs.m, "min_value")
               /\ HasKey(aggs.m, "max_value")
       THEN [info |-> SearchQueryInfo("FacetsNumeric", fieldName, size.size,
                                      Get(sampler.m, "shard_size").n),
             ok |-> TRUE]
       ELSE no

\* isItListRequest
isItListRequest(queryMap) ==
    LET no == [info |-> NewSearchQueryInfoNormal, ok |-> FALSE]
        size == parseSize(queryMap, DefaultSizeListQuery)
        all == [info |-> SearchQueryInfo("ListAllFields", "*", 0, size), ok |-> TRUE]
        fields == Get(queryMap, "fields")
        first == fields.a[1]
        named == Get(first.m, "field")
        fieldName == IF first.t = "string" THEN first.s ELSE named.s
        resolvedField == TranslatorResolveField(fieldName)
    IN IF size = 0 THEN no
       ELSE IF fields.t # "array" THEN all
       ELSE IF Len(fields.a) > 1
       THEN IF \E i \in 1..Len(fields.a) : ~IsQueryMap(fields.a[i]) THEN no ELSE all
       ELSE IF Len(fields.a) = 0 THEN no
       ELSE IF first.t # "string" /\ ~IsQueryMap(first) THEN no
       ELSE IF first.t # "string" /\ ~HasKey(first.m, "field") THEN no
       ELSE IF first.t # "string" /\ named.t # "string" THEN no
       ELSE IF resolvedField = "*" THEN all
       ELSE [info |-> SearchQueryInfo("ListByField", resolvedField, 0, size),
             ok |-> TRUE]

\* tryProcessSearchMetadata
tryProcessSearchMetadata(queryMap) ==
    LET metadata == parseMetadata(queryMap)
    IN IF isItFacetsRequest(metadata).ok THEN isItFacetsRequest(metadata).info
       ELSE IF isItListRequest(metadata).ok THEN isItListRequest(metadata).info
       ELSE NewSearchQueryInfoNormal

\* the requests classified: each of aggs, size and fields is absent or takes
\* one of a few shapes
NoKey == JValue("absent", "", 0, <<>>, EmptyObject)

TermsOf(field) ==
    JObject(One("terms", JObject([k \in {"size", "field"} |->
                IF k = "size" THEN JNumber(3) ELSE field])))

FacetsAggs(keys, field) ==
    JObject(One("sample", JObject([k \in {"aggs", "sampler"} |->
        IF k = "aggs"
        THEN JObject([a \in keys |->
                IF a = "top_values" THEN TermsOf(field) ELSE JObject(EmptyObject)])
        ELSE JObject(One("shard_size", JNumber(5)))])))

AggsShapes ==
    {NoKey,
     JObject(One("by_host", JObject(EmptyObject))),
     FacetsAggs({"sample_count", "top_values"}, JString("host")),
     FacetsAggs({"sample_count", "top_values", "min_value", "max_value"},
                JString("host")),
     FacetsAggs({"sample_count", "top_values", "other"}, JString("host")),
     FacetsAggs({"sample_count", "top_values"}, JNumber(1))}

SizeShapes == {NoKey, JNumber(0), JNumber(5), JNumber(0 - 1), JString("5")}

FieldElements ==
    {JString("host"), JString("*"),
     JObject(One("field", JString("host"))), JObject(One("field", JString("*"))),
     JObject(EmptyObject), JObject(One("field", JNumber(1)))}

FieldsShapes ==
    {NoKey, JString("host"), JArray(<<>>)}
        \cup {JArray(<<e>>) : e \in FieldElements}
        \cup {JArray(<<e, f>>) : e \in FieldElements, f \in FieldElements}

QueryShapes == {NoKey, JObject(One("match_all", JObject(EmptyObject)))}

SearchRequest(query, aggs, size, fields) ==
    LET shape == [k \in {"query", "aggs", "size", "fields"} |->
                    CASE k = "query" -> query
                      [] k = "aggs" -> aggs
                      [] k = "size" -> size
                      [] OTHER -> fields]
    IN [k \in {x \in DOMAIN shape : shape[x] # NoKey} |-> shape[k]]

SearchRequests ==
    {SearchRequest(q, a, s, f) :
        q \in QueryShapes, a \in AggsShapes, s \in SizeShapes, f \in FieldsShapes}

InitClassify ==
    /\ RunnerIdle
    /\ arg \in SearchRequests
    /\ ret = <<>>
    /\ called = "no"

TryProcessSearchMetadata ==
    /\ called = "no"
    /\ ret' = tryProcessSearchMetadata(arg)
    /\ called' = "returned"
    /\ UNCHANGED <<arg, callFrame>>

NextClassify == TryProcessSearchMetadata

SpecClassify == InitClassify /\ [][NextClassify]_vars

\* what names a field of the fields list: the string, or the field of the map
NamesStar(e) == e = JString("*") \/ Get(e.m, "field") = JString("*")

\* the class the request is to get: a List only without aggs and with a
\* positive size
ListClass(request) ==
    LET size == parseSize(request, DefaultSizeListQuery)
        fields == Get(request, "fields")
    IN IF HasKey(request, "aggs") \/ size <= 0 THEN "Normal"
       ELSE IF ~HasKey(request, "fields") THEN "ListAllFields"
       ELSE IF fields.t # "array" THEN "Normal"
       ELSE IF Len(fields.a) = 1 THEN "ListByField"
       ELSE IF Len(fields.a) > 1 /\ \E i \in 1..Len(fields.a) : NamesStar(fields.a[i])
       THEN "ListAllFields"
       ELSE "Normal"

\* C22: a request that is not a facets request is a List only if it has no
\* aggs and a size above 0: without fields it is ListAllFields, with exactly
\* one field ListByField, with more than one field of which one is '*'
\* ListAllFields; every other request is Normal.
C22_ListOnlyWithoutAggs ==
    (called = "returned" /\ ret.Typ \notin {"Facets", "FacetsNumeric"})
        => ret.Typ = ListClass(arg)

\* ---------------------------------------------------------------------------
\* SpecStatistics: the statistics of the ingested documents
\* (clickhouse/schema_management.go:65-161, 219-237)
\* ---------------------------------------------------------------------------

\* we gather statistics only for the first 10000 requests
STATISTICS_LIMIT == 10000

\* the calls of Process a behaviour follows
MaxProcessCalls == 3

StatIndexes == {"logs", "audit"}

StatKeys == {"host", "level"}

StatValues == {"1", "true", "x"}

\* the documents, flattened: key -> value printed with %v
StatDocuments == UNION {[ks -> StatValues] : ks \in SUBSET StatKeys}

\* typesOf, for the values of StatValues
typesOf(str) ==
    (IF str = "true" THEN <<"bool">> ELSE <<>>)
        \o (IF str = "1" THEN <<"int">> ELSE <<>>)
        \o (IF str = "1" THEN <<"float">> ELSE <<>>)
        \o <<"string">>

IndexStatistics(indexName, requests, keys) ==
    [IndexName |-> indexName, Requests |-> requests, Keys |-> keys]

KeyStatistics(keyName, occurrences, values) ==
    [KeyName |-> keyName, Occurrences |-> occurrences, Values |-> values]

ValueStatistics(valueName, occurrences, types) ==
    [ValueName |-> valueName, Occurrences |-> occurrences, Types |-> types]

\* the body of the loop over flatJson (lines 144-159) for one key
CountKey(keys, key, valueString) ==
    LET keyStatistics == IF key \in DOMAIN keys THEN keys[key]
                         ELSE KeyStatistics(key, 0, <<>>)
        valueStatistics == IF valueString \in DOMAIN keyStatistics.Values
                           THEN keyStatistics.Values[valueString]
                           ELSE ValueStatistics(valueString, 0, <<>>)
    IN KeyStatistics(key, keyStatistics.Occurrences + 1,
           [v \in DOMAIN keyStatistics.Values \cup {valueString} |->
               IF v = valueString
               THEN ValueStatistics(valueString, valueStatistics.Occurrences + 1,
                                    typesOf(valueString))
               ELSE keyStatistics.Values[v]])

\* the loop over flatJson: the keys of a document are distinct, so the order
\* of the map iteration does not show
CountKeys(keys, flatJson) ==
    [k \in DOMAIN keys \cup DOMAIN flatJson |->
        IF k \in DOMAIN flatJson THEN CountKey(keys, k, flatJson[k]) ELSE keys[k]]

\* the map after Statistics.Process; cfg is a parameter passed by value, so
\* line 139 clears IngestStatistics in the copy of the call only
StatisticsAfterProcess(s, cfgIngestStatistics, index, flatJson) ==
    LET entry == IF index \in DOMAIN s THEN s[index]
                 ELSE IndexStatistics(index, 0, <<>>)
        withIndex == [i \in DOMAIN s \cup {index} |-> IF i = index THEN entry ELSE s[i]]
    IN IF ~cfgIngestStatistics THEN s
       ELSE IF entry.Requests >= STATISTICS_LIMIT THEN withIndex
       ELSE [withIndex EXCEPT ![index] =
                IndexStatistics(index, entry.Requests + 1,
                                CountKeys(entry.Keys, flatJson))]

\* the statistics after documents without keys: n of them for each index
StatisticsAfterEmpty(counts) ==
    [i \in {x \in DOMAIN counts : counts[x] > 0} |->
        IndexStatistics(i, counts[i], <<>>)]

\* the numbers of documents ingested before the behaviour begins
StartCounts == [StatIndexes -> {0, STATISTICS_LIMIT - 1, STATISTICS_LIMIT}]

InitStatistics ==
    /\ SearchIdle
    /\ arg = <<>>
    /\ ret = <<>>
    /\ called = "no"
    /\ statCalls = 0
    /\ ingestStatistics \in BOOLEAN
    /\ \E counts \in StartCounts :
        /\ statistics = IF ingestStatistics THEN StatisticsAfterEmpty(counts) ELSE <<>>
        /\ processed = counts["logs"] + counts["audit"]

\* Statistics.Process
Process ==
    \E index \in StatIndexes, flatJson \in StatDocuments :
        /\ statCalls < MaxProcessCalls
        /\ statistics' = StatisticsAfterProcess(statistics, ingestStatistics,
                                                index, flatJson)
        /\ processed' = processed + 1
        /\ statCalls' = statCalls + 1
        /\ UNCHANGED <<ingestStatistics, arg, ret, called, deleted, asyncVars,
                       evictVars, currentParallelQueryJobs, jobVars, limitVars>>

NextStatistics == Process

SpecStatistics == InitStatistics /\ [][NextStatistics]_vars

\* C23: once 10,000 requests were handed to Process, no later request, for
\* whatever index, changes the statistics.
C23_NoChangeAfterLimit ==
    [][processed >= STATISTICS_LIMIT => statistics' = statistics]_vars

\* ---------------------------------------------------------------------------
\* SpecHits: the hits of a list response (part_002:48-140, table.go:226-260)
\* ---------------------------------------------------------------------------

\* the rows of a page
MaxRows == 2

\* a cell of a result row: nil, a time.Time or a string; the value is its text
Cell(t, v) == [t |-> t, v |-> v]

Col(colName, value) == [ColName |-> colName, Value |-> value]

NilCell == Cell("nil", <<>>)

\* the timestamp cell of a row: none, NULL, one of two instants, or a string
TimestampCols ==
    {<<>>} \cup {<<Col("@timestamp", c)>> :
                    c \in {NilCell, Cell("time", <<"1">>), Cell("time", <<"2">>),
                           Cell("string", <<"x">>)}}

MessageCols == {<<Col("message", c)>> : c \in {NilCell, Cell("string", <<"b">>)}}

ResultRows == {t \o m : t \in TimestampCols, m \in MessageCols}

RowPages == UNION {[1..n -> ResultRows] : n \in 0..MaxRows}

\* clickhouse.Table: the name, the timestamp column ("" for nil), the aliases
HitsTable(timestampColumn, aliases) ==
    [Name |-> "logs", TimestampColumn |-> timestampColumn, aliases |-> aliases]

HitsTables ==
    {HitsTable(ts, al) : ts \in {"", "@timestamp"},
                         al \in {EmptyObject, One("msg", "message")}}

\* Table.GetTimestampFieldName
GetTimestampFieldName(t) ==
    IF t.TimestampColumn # ""
    THEN [name |-> t.TimestampColumn, err |-> FALSE]
    ELSE [name |-> "", err |-> TRUE]

\* Highlighter.ShouldHighlight
ShouldHighlight(h, columnName) == columnName \in DOMAIN h.Tokens

NewHits(table, highlighter, sortFieldNames, addSource, addScore, addVersion) ==
    [table |-> table, highlighter |-> highlighter,
     sortFieldNames |-> sortFieldNames, addSource |-> addSource,
     addScore |-> addScore, addVersion |-> addVersion]

HitsQueries ==
    {NewHits(t, Highlighter(tokens, <<<<"<em>">>>>, <<<<"</em>">>>>), sort, so, sc, ve) :
        t \in HitsTables,
        tokens \in {EmptyObject, One("message", {<<"b">>})},
        sort \in {<<>>, <<"@timestamp">>},
        so \in BOOLEAN, sc \in BOOLEAN, ve \in BOOLEAN}

defaultScore == 1

defaultVersion == 1

\* the columns of a row that hold a value
ValuedCols(row) == {i \in 1..Len(row) : row[i].Value # NilCell}

\* addAndHighlightHit: the fields of the hit, with the fields the aliases add
HitFields(query, row) ==
    LET own == {row[i].ColName : i \in ValuedCols(row)}
        valueOf(name) == (CHOOSE i \in ValuedCols(row) : row[i].ColName = name)
        aliased == {a \in DOMAIN query.table.aliases : query.table.aliases[a] \in own}
    IN [name \in own \cup aliased |->
           IF name \in aliased THEN row[valueOf(query.table.aliases[name])].Value
           ELSE row[valueOf(name)].Value]

\* addAndHighlightHit: the columns HighlightValue is called for, those with
\* tokens and a string value
HitHighlight(query, row) ==
    {row[i].ColName : i \in {j \in ValuedCols(row) :
        /\ ShouldHighlight(query.highlighter, row[j].ColName)
        /\ row[j].Value.t = "string"}}

\* fmt.Sprintf("%x", s) for a text of the digits 1 and 2: two hexadecimal
\* digits for each byte
RECURSIVE HexOf(_)
HexOf(s) ==
    IF s = <<>> THEN <<>>
    ELSE <<"3", Head(s)>> \o HexOf(Tail(s))

\* strconv.Itoa for 0..9
Itoa(n) == <<SubSeq(<<"0", "1", "2", "3", "4", "5", "6", "7", "8", "9">>, n + 1, n + 1)[1]>>

\* Hits.computeIdForDocument
computeIdForDocument(query, fields, defaultID) ==
    LET ts == GetTimestampFieldName(query.table)
    IN IF ts.err THEN defaultID
       ELSE IF ts.name \in DOMAIN fields
       THEN IF fields[ts.name].t = "time"
            THEN HexOf(fields[ts.name].v) \o <<"q">> \o defaultID
            ELSE defaultID
       ELSE <<>>

\* the hit of row i
SearchHit(query, rows, i) ==
    LET fields == HitFields(query, rows[i])
        sorted == SelectSeq(query.sortFieldNames, LAMBDA f : f \in DOMAIN fields)
    IN [Index |-> query.table.Name,
        Score |-> IF query.addScore THEN defaultScore ELSE 0,
        Version |-> IF query.addVersion THEN defaultVersion ELSE 0,
        Source |-> IF query.addSource THEN rows[i] ELSE <<>>,
        Fields |-> fields,
        Highlight |-> HitHighlight(query, rows[i]),
        ID |-> computeIdForDocument(query, fields, Itoa(i)),
        Sort |-> [k \in 1..Len(sorted) |-> fields[sorted[k]]]]

\* Hits.TranslateSqlResponseToJson
HitsResponse(query, rows) ==
    [hits |-> [Total |-> [Value |-> Len(rows), Relation |-> "eq"],
               Hits |-> [i \in 1..Len(rows) |-> SearchHit(query, rows, i)]],
     shards |-> [Total |-> 1, Successful |-> 1, Failed |-> 0]]

InitHits ==
    /\ RunnerIdle
    /\ arg \in {[query |-> q, rows |-> rows] : q \in HitsQueries, rows \in RowPages}
    /\ ret = <<>>
    /\ called = "no"

TranslateSqlResponseToJson ==
    /\ called = "no"
    /\ ret' = HitsResponse(arg.query, arg.rows)
    /\ called' = "returned"
    /\ UNCHANGED <<arg, callFrame>>

NextHits == TranslateSqlResponseToJson

SpecHits == InitHits /\ [][NextHits]_vars

\* the timestamp cell of row i, where the row holds an instant in the
\* timestamp column of the table
TimestampCells(i) ==
    {arg.rows[i][k].Value : k \in {j \in 1..Len(arg.rows[i]) :
        /\ arg.rows[i][j].ColName = arg.query.table.TimestampColumn
        /\ arg.rows[i][j].Value.t = "time"}}

\* C24: the _id of a hit is the timestamp cell of its row in hexadecimal, then
\* "q", then the index of the row in the page; no hit has an empty _id and no
\* two hits of a page have the same _id.
C24_HitIdsFromTimestamp ==
    called = "returned" =>
        \A i \in 1..Len(arg.rows) :
            /\ \A c \in TimestampCells(i) :
                  ret.hits.Hits[i].ID = HexOf(c.v) \o <<"q">> \o Itoa(i)
            /\ ret.hits.Hits[i].ID # <<>>
            /\ \A j \in 1..Len(arg.rows) :
                  j # i => ret.hits.Hits[j].ID # ret.hits.Hits[i].ID

\* ---------------------------------------------------------------------------
\* SpecDiff: derivative and serial_diff over the rows of the parent
\* aggregation (part_003:49-128)
\* ---------------------------------------------------------------------------

\* the buckets of the parent series, and the largest lag
MaxBuckets == 4

MaxLag == 3

\* the value of a cell: nil, an int64, a float64 (n counts halves, which
\* float64 holds exactly) or a string
Num(t, n) == [t |-> t, n |-> n]

NilValue == Num("nil", 0)

\* util.ExtractFloat64Maybe and util.ExtractInt64Maybe: the number behind the
\* value, and whether the value is of that type
ExtractFloat64Maybe(value) == [value |-> value.n, ok |-> value.t = "float"]

ExtractInt64Maybe(value) == [value |-> value.n, ok |-> value.t = "int"]

\* QueryResultRow.LastColValue
LastColValue(row) == row[Len(row)]

\* row.Copy() with the value of the last column replaced
WithLastColValue(row, value) == [row EXCEPT ![Len(row)] = value]

Min(a, b) == IF a < b THEN a ELSE b

\* the index of the row subtracted in step i of the loops of lines 84 and 102
PreviousRowIndexUnshifted(i, firstNonNilIndex, rowsWithNilValueCnt) ==
    i + firstNonNilIndex

PreviousRowIndex(i, firstNonNilIndex, rowsWithNilValueCnt) ==
    i + firstNonNilIndex - rowsWithNilValueCnt

\* calculateResultWhenMissingCommonForDiffAggregations; the rows are counted
\* from 0 as in the source, row k of the source is parentRows[k + 1]
calculateResultWhenMissingCommonForDiffAggregations(parentRows, lag) ==
    LET n == Len(parentRows)
        rowsWithNilValueCnt == Min(lag, n)
        nonNil == {k \in rowsWithNilValueCnt..(n - 1) :
                      LastColValue(parentRows[k + 1]) # NilValue}
        firstNonNilIndex ==
            IF nonNil = {} THEN 0 - 1
            ELSE CHOOSE k \in nonNil : \A other \in nonNil : k <= other
        first == LastColValue(parentRows[firstNonNilIndex + 1])
        previousRow(k) ==
            parentRows[PreviousRowIndex(k - firstNonNilIndex, firstNonNilIndex,
                                        rowsWithNilValueCnt) + 1]
        floatValue(k) ==
            LET previous == ExtractFloat64Maybe(LastColValue(previousRow(k)))
                current == ExtractFloat64Maybe(LastColValue(parentRows[k + 1]))
            IN IF previous.ok /\ current.ok
               THEN Num("float", current.value - previous.value) ELSE NilValue
        intValue(k) ==
            LET previous == ExtractInt64Maybe(LastColValue(previousRow(k)))
                current == ExtractInt64Maybe(LastColValue(parentRows[k + 1]))
            IN IF previous.ok /\ current.ok
               THEN Num("int", current.value - previous.value) ELSE NilValue
        resultValue(k) ==
            IF k < rowsWithNilValueCnt THEN NilValue
            ELSE IF firstNonNilIndex = 0 - 1 \/ k < firstNonNilIndex THEN NilValue
            ELSE IF ExtractFloat64Maybe(first).ok THEN floatValue(k)
            ELSE IF ExtractInt64Maybe(first).ok THEN intValue(k)
            ELSE NilValue
    IN [j \in 1..n |-> WithLastColValue(parentRows[j], resultValue(j - 1))]

\* the parent series: the key of the bucket and its value; the values of a
\* series come from one column of the database and are of one type, or nil
DiffValues(t) == {NilValue} \cup {Num(t, n) : n \in {1, 4}}

DiffSeries ==
    UNION {[1..n -> DiffValues(t)] : n \in 0..MaxBuckets, t \in {"int", "float", "string"}}

ParentRows(series) == [j \in 1..Len(series) |-> <<Num("int", j), series[j]>>]

InitDiff ==
    /\ RunnerIdle
    /\ arg \in {[parentRows |-> ParentRows(series), lag |-> lag] :
                    series \in DiffSeries, lag \in 1..MaxLag}
    /\ ret = <<>>
    /\ called = "no"

CalculateDiff ==
    /\ called = "no"
    /\ ret' = calculateResultWhenMissingCommonForDiffAggregations(arg.parentRows,
                                                                  arg.lag)
    /\ called' = "returned"
    /\ UNCHANGED <<arg, callFrame>>

NextDiff == CalculateDiff

SpecDiff == InitDiff /\ [][NextDiff]_vars

\* the values of the parent series
ParentValue(j) == LastColValue(arg.parentRows[j])

\* the type of the first bucket of the parent series that is not nil
FirstNonNullType ==
    LET nonNil == {j \in 1..Len(arg.parentRows) : ParentValue(j) # NilValue}
    IN ParentValue(CHOOSE j \in nonNil : \A other \in nonNil : j <= other).t

\* C25: over a parent series of n numbers with lag L the result has n
\* buckets with the keys of the parent; the first min(L, n) are nil, and a
\* later bucket i holds parent[i] - parent[i - L] in the type of the first
\* bucket that is not nil, or nil when one of the two is nil.
C25_DiffOfLaggedBuckets ==
    (/\ called = "returned"
     /\ \A j \in 1..Len(arg.parentRows) : ParentValue(j).t # "string")
        => /\ Len(ret) = Len(arg.parentRows)
           /\ \A j \in 1..Len(ret) :
                /\ ret[j][1] = arg.parentRows[j][1]
                /\ LastColValue(ret[j]) =
                      IF j <= Min(arg.lag, Len(arg.parentRows)) THEN NilValue
                      ELSE IF ParentValue(j) = NilValue
                              \/ ParentValue(j - arg.lag) = NilValue
                      THEN NilValue
                      ELSE Num(FirstNonNullType,
                               ParentValue(j).n - ParentValue(j - arg.lag).n)

\* C25 witness: a series of four buckets with lag 2 gave a difference for one
\* bucket and nil, for want of an operand, for the other
C25_Witness ==
    /\ called = "returned"
    /\ Len(arg.parentRows) = 4
    /\ arg.lag = 2
    /\ ParentValue(1) = NilValue
    /\ LastColValue(ret[3]) = NilValue
    /\ LastColValue(ret[4]) = Num("float", 3)

\* ---------------------------------------------------------------------------
\* The size of the async store, deletes, and the goroutines of a search
\* ---------------------------------------------------------------------------

\* C26: the async store never holds more than asyncQueriesLimit entries,
\* however the async searches that passed the check of reachedQueriesLimit
\* interleave with the stores of their results.
C26_StoreWithinLimit == StorageSize <= asyncQueriesLimit

\* SpecDelete: one async search and the deletes of its id, with the ids of the
\* deletes that returned kept in `deleted`
DeleteReturns ==
    /\ \E id \in 0 .. asyncRequestId :
         /\ DeleteAsyncSearch(id)
         /\ deleted' = IF IsQuesmaId(id) THEN deleted \cup {id} ELSE deleted
    /\ UNCHANGED <<AsyncQueriesContexts, asyncRequestId, otherStored, otherBodyLen,
                   otherConsumed, req, hpc, wpc, bpc, doneCh, resp, cpc, cid,
                   cres, cret, delivered, cafter, timerEarly, pendingAtCheck,
                   dbCalled, storedFor, evictVars, currentParallelQueryJobs,
                   jobVars, limitVars, arg, ret, called, statVars>>

NextDelete ==
    \/ \E r \in PolledRequests : Submit(r)
    \/ \E r \in PolledRequests : WorkerStart(r)
    \/ \E r \in PolledRequests : WorkerDB(r)
    \/ \E r \in PolledRequests : WorkerSecondSend(r)
    \/ \E r \in PolledRequests : HandlerRecv(r)
    \/ \E r \in PolledRequests : HandlerTimer(r)
    \/ \E r \in PolledRequests : BackgroundStore(r)
    \/ \E r \in PolledRequests : HandlerLoad(r)
    \/ \E r \in PolledRequests : PartialFinish(r)
    \/ DeleteReturns

SpecDelete == InitAsync /\ [][NextDelete]_vars

\* C27: once delete_async(id) has returned nothing is stored under id: the
\* result of a search that was still running at the delete is not written to
\* the store when the search finishes.
C27_NoStoreAfterDelete ==
    \A id \in deleted : ~MapHas(AsyncRequestStorage, id)

\* the jobs of the requests that have added them to the counter and not yet
\* taken them off: between the Add of search.go:543 and the Add of line 546,
\* or the deferred Add of line 550
JobsCounted == SumJobs({r \in LimitRequests : lpc[r] \in {"added", "par"}}, ln)

\* C29: currentParallelQueryJobs is never negative, it is the sum of the jobs
\* of the requests between their Add and the Add that takes the jobs off
\* again, on the parallel path and on the sequential fallback, and so it is 0
\* when no request is inside runQueryJobs.
C29_CounterBalanced ==
    /\ currentParallelQueryJobs >= 0
    /\ currentParallelQueryJobs = JobsCounted
    /\ (\A r \in LimitRequests : lpc[r] = "idle") => currentParallelQueryJobs = 0

\* one request has fallen back to the sequence and taken its jobs off the
\* counter, which holds the jobs of the request that runs in parallel and of
\* the one that has just added its own
C29_Witness ==
    \E r \in LimitRequests, p \in LimitRequests, a \in LimitRequests :
        /\ lpc[r] = "seq" /\ ln[r] > 1
        /\ lpc[p] = "par"
        /\ lpc[a] = "added"
        /\ currentParallelQueryJobs = ln[p] + ln[a]

\* SpecGoroutines: one search with the goroutines it starts: the worker of
\* search.go:252, whose searchWorkerCommon is the run of the query jobs, the
\* goroutines of the parallel jobs, the handler, and the goroutine the
\* handler starts when the timer fires
TheRequest == CHOOSE r \in PolledRequests : TRUE

\* the store is empty or full when the search arrives
InitGoroutines ==
    /\ InitAsync
    /\ otherStored \in {0, asyncQueriesLimit}

\* the worker enters searchWorkerCommon (search.go:631); of the queries
\* without a job the plans hold those with NoDBQuery
WorkerEnters ==
    /\ wpc[TheRequest] = "db"
    /\ SearchWorkerCommon
    /\ jreq'.async = req[TheRequest].async
    /\ \A i \in 1..Len(jreq'.queries) : jreq'.queries[i] # "kibanaInternal"

\* searchWorkerCommon has returned, and the worker goes on to its first send
\* on doneCh (search.go:253-276): the error of the jobs, "no hits" without
\* results, else what becomes of the results
WorkerReturns ==
    /\ jpc = "done"
    /\ WorkerDB(TheRequest)
    /\ LET sent == doneCh'[TheRequest][Len(doneCh'[TheRequest])].err
       IN IF jerr # NoErr THEN sent = "db error"
          ELSE IF hits = <<>> THEN sent = "no hits"
          ELSE sent \notin {"db error", "no hits"}

\* the select of search.go:307-320 takes one of its cases
HandlerSelect == HandlerRecv(TheRequest) \/ HandlerTimer(TheRequest)

NextGoroutines ==
    \/ Submit(TheRequest)
    \/ WorkerStart(TheRequest)
    \/ WorkerEnters
    \/ RunQueryJobsAdd
    \/ RunQueryJobsDecide
    \/ SequenceJobStart
    \/ SequenceJobReturn
    \/ \E j \in 1..NumJobs : ParallelJobSend(j)
    \/ ParallelConsume
    \/ ParallelReturn
    \/ WorkerReturns
    \/ WorkerSecondSend(TheRequest)
    \/ HandlerSelect
    \/ BackgroundStore(TheRequest)
    \/ HandlerLoad(TheRequest)
    \/ PartialFinish(TheRequest)

\* every goroutine that can take a step takes it in the end, and the calls of
\* the database return
FairGoroutines ==
    /\ WF_vars(WorkerStart(TheRequest))
    /\ WF_vars(WorkerEnters)
    /\ WF_vars(RunQueryJobsAdd)
    /\ WF_vars(RunQueryJobsDecide)
    /\ WF_vars(SequenceJobStart)
    /\ WF_vars(SequenceJobReturn)
    /\ \A j \in 1..MaxQueries : WF_vars(j <= NumJobs /\ ParallelJobSend(j))
    /\ WF_vars(ParallelConsume)
    /\ WF_vars(ParallelReturn)
    /\ WF_vars(WorkerReturns)
    /\ WF_vars(WorkerSecondSend(TheRequest))
    /\ WF_vars(HandlerSelect)
    /\ WF_vars(BackgroundStore(TheRequest))

SpecGoroutines == InitGoroutines /\ [][NextGoroutines]_vars /\ FairGoroutines

\* C28: every goroutine of a search comes to its end: the worker, which
\* sends up to twice on a doneCh of capacity 1, the goroutine that waits for
\* the result after the timer, and every query job, also when the consumer
\* of the collector has returned on the first error.
C28_GoroutinesTerminate ==
    /\ (wpc[TheRequest] # "none") ~> (wpc[TheRequest] = "done")
    /\ (bpc[TheRequest] = "recv") ~> (bpc[TheRequest] = "done")
    /\ \A j \in 1..MaxQueries :
          (j <= Len(jobState) /\ jobState[j] = "running")
              ~> (j <= Len(jobState) /\ jobState[j] = "returned")

\* the consumer of the collector returned on the first error with the results
\* of two more jobs unread, all jobs have returned, and the worker is done
C28_Witness ==
    /\ wpc[TheRequest] = "done"
    /\ jmode = "par"
    /\ jerr # NoErr
    /\ Len(collector) = 2
    /\ \A j \in 1..NumJobs : jobState[j] = "returned"

====
